---- MODULE Spec2Model ----
(***************************************************************************)
(* A model of josekit's JWS context (src/src/jws/jws_context.rs): the      *)
(* acceptable-critical set and the compact, flattened-JSON and             *)
(* general-JSON serialization and deserialization pipelines.               *)
(*                                                                         *)
(* Texts (payloads, compact serializations, base64url strings) are         *)
(* sequences of byte values.  JSON envelopes are the trees that            *)
(* serde_json::from_str yields for the text the serializers emit.          *)
(***************************************************************************)
EXTENDS Integers, Sequences, FiniteSets, TLC

\* Longest payload, in bytes, that the serializers are called with.
MaxPayloadLen == 1

\* Most (protected, header, signer) triples held by a JwsMultiSigner.
MaxSigners == 2

\* The byte '.', the separator of the compact form.
DOT == 46

\* Payload bytes: '.', 'a', and 0xFF (never part of valid UTF-8).
PayloadBytes == {46, 97, 255}

Payloads == UNION {[1..n -> PayloadBytes] : n \in 0..MaxPayloadLen}

None == <<>>

Some(x) == <<x>>

Contains(seq, x) == \E i \in 1..Len(seq) : seq[i] = x

----------------------------------------------------------------------------
(* base64, URL_SAFE_NO_PAD                                                 *)

B64Char(i) ==
    IF i < 26 THEN 65 + i
    ELSE IF i < 52 THEN 97 + (i - 26)
    ELSE IF i < 62 THEN 48 + (i - 52)
    ELSE IF i = 62 THEN 45
    ELSE 95

B64Index(c) ==
    IF c >= 65 /\ c <= 90 THEN c - 65
    ELSE IF c >= 97 /\ c <= 122 THEN c - 97 + 26
    ELSE IF c >= 48 /\ c <= 57 THEN c - 48 + 52
    ELSE IF c = 45 THEN 62
    ELSE IF c = 95 THEN 63
    ELSE -1

RECURSIVE Base64Encode(_)
Base64Encode(bs) ==
    IF Len(bs) = 0 THEN <<>>
    ELSE IF Len(bs) = 1 THEN
        <<B64Char(bs[1] \div 4), B64Char((bs[1] % 4) * 16)>>
    ELSE IF Len(bs) = 2 THEN
        <<B64Char(bs[1] \div 4),
          B64Char((bs[1] % 4) * 16 + (bs[2] \div 16)),
          B64Char((bs[2] % 16) * 4)>>
    ELSE
        <<B64Char(bs[1] \div 4),
          B64Char((bs[1] % 4) * 16 + (bs[2] \div 16)),
          B64Char((bs[2] % 16) * 4 + (bs[3] \div 64)),
          B64Char(bs[3] % 64)>>
        \o Base64Encode(SubSeq(bs, 4, Len(bs)))

RECURSIVE B64DecodeGroups(_)
B64DecodeGroups(ix) ==
    IF Len(ix) < 2 THEN <<>>
    ELSE IF Len(ix) = 2 THEN <<ix[1] * 4 + (ix[2] \div 16)>>
    ELSE IF Len(ix) = 3 THEN
        <<ix[1] * 4 + (ix[2] \div 16), (ix[2] % 16) * 16 + (ix[3] \div 4)>>
    ELSE
        <<ix[1] * 4 + (ix[2] \div 16),
          (ix[2] % 16) * 16 + (ix[3] \div 4),
          (ix[3] % 4) * 64 + ix[4]>>
        \o B64DecodeGroups(SubSeq(ix, 5, Len(ix)))

\* Strict decode: a symbol outside the alphabet, a length of 1 mod 4 and
\* non-zero trailing bits are errors.
Base64Decode(cs) ==
    LET n == Len(cs)
        ix == [i \in 1..n |-> B64Index(cs[i])]
        bad == \/ \E i \in 1..n : ix[i] = -1
               \/ n % 4 = 1
               \/ (n % 4 = 2 /\ ix[n] % 16 # 0)
               \/ (n % 4 = 3 /\ ix[n] % 4 # 0)
    IN IF bad THEN [ok |-> FALSE, v |-> <<>>]
       ELSE [ok |-> TRUE, v |-> B64DecodeGroups(ix)]

----------------------------------------------------------------------------
(* UTF-8                                                                   *)

\* std::str::from_utf8 succeeds: one-byte and two-byte sequences are
\* recognised; every other lead byte is rejected (0xFF is never valid).
RECURSIVE IsUtf8(_)
IsUtf8(bs) ==
    IF Len(bs) = 0 THEN TRUE
    ELSE IF bs[1] < 128 THEN IsUtf8(Tail(bs))
    ELSE IF bs[1] >= 194 /\ bs[1] <= 223 /\ Len(bs) >= 2
            /\ bs[2] >= 128 /\ bs[2] <= 191 THEN IsUtf8(SubSeq(bs, 3, Len(bs)))
    ELSE FALSE

----------------------------------------------------------------------------
(* JSON values and the header claims map (serde_json::Map<String, Value>)  *)

Str(s) == [t |-> "str", s |-> s, b |-> FALSE, a |-> <<>>]

Bool(b) == [t |-> "bool", s |-> "", b |-> b, a |-> <<>>]

Arr(a) == [t |-> "arr", s |-> "", b |-> FALSE, a |-> a]

Num == [t |-> "num", s |-> "5", b |-> FALSE, a |-> <<>>]

EmptyMap == [c \in {} |-> Num]

Insert(m, k, v) == [c \in (DOMAIN m) \cup {k} |-> IF c = k THEN v ELSE m[c]]

\* The claim names of the model, in the key order of serde_json's Map.
ClaimOrder == <<"alg", "b64", "crit", "critical", "kid", "typ">>

\* The JSON values a claim can hold in the model.
ValueTable ==
    << Str("EdDSA"), Str("RS256"), Str("none"), Str("k1"), Str("k2"),
       Str("JWT"), Bool(TRUE), Bool(FALSE), Arr(<<"b64">>), Arr(<<"exp">>),
       Arr(<<"b64", "exp">>), Num >>

ValueCode(v) == CHOOSE i \in 1..Len(ValueTable) : ValueTable[i] = v

\* serde_json::to_vec of a claims map: an injective byte encoding, one byte
\* per claim name in key order (0: the claim is absent).
JsonToVec(m) ==
    [i \in 1..Len(ClaimOrder) |->
        IF ClaimOrder[i] \in DOMAIN m THEN ValueCode(m[ClaimOrder[i]]) ELSE 0]

\* serde_json::from_slice into a Map: fails on bytes that encode no map.
JsonFromSlice(bs) ==
    IF /\ Len(bs) = Len(ClaimOrder)
       /\ \A i \in 1..Len(bs) : bs[i] \in 0..Len(ValueTable)
    THEN LET present == {i \in 1..Len(bs) : bs[i] # 0}
             slot(c) == CHOOSE i \in present : ClaimOrder[i] = c
         IN [ok |-> TRUE,
             v |-> [c \in {ClaimOrder[i] : i \in present} |-> ValueTable[bs[slot(c)]]]]
    ELSE [ok |-> FALSE, v |-> EmptyMap]

----------------------------------------------------------------------------
(* JwsHeader: the typed views over a claims map                            *)

\* JwsHeader::from_map: the well-known claims must have their types.
from_map(m) ==
    LET typed(c, t) == c \in DOMAIN m => m[c].t = t
    IN IF typed("alg", "str") /\ typed("kid", "str")
          /\ typed("crit", "arr") /\ typed("b64", "bool")
       THEN [ok |-> TRUE, v |-> m]
       ELSE [ok |-> FALSE, v |-> EmptyMap]

claim(header, name) == IF name \in DOMAIN header THEN Some(header[name]) ELSE None

critical(header) ==
    IF "crit" \in DOMAIN header /\ header["crit"].t = "arr"
    THEN Some(header["crit"].a) ELSE None

base64url_encode_payload(header) ==
    IF "b64" \in DOMAIN header /\ header["b64"].t = "bool"
    THEN Some(header["b64"].b) ELSE None

header_key_id(header) ==
    IF "kid" \in DOMAIN header /\ header["kid"].t = "str"
    THEN Some(header["kid"].s) ELSE None

header_algorithm(header) ==
    IF "alg" \in DOMAIN header /\ header["alg"].t = "str"
    THEN Some(header["alg"].s) ELSE None

----------------------------------------------------------------------------
(* Signers and verifiers: [alg, key, kid]                                  *)

AlgCode(alg) == IF alg = "EdDSA" THEN 1 ELSE IF alg = "RS256" THEN 2 ELSE 3

RECURSIVE Digest(_)
Digest(message) ==
    IF Len(message) = 0 THEN 7
    ELSE (Digest(SubSeq(message, 1, Len(message) - 1)) * 31
          + message[Len(message)]) % 256

\* JwsSigner::sign: a deterministic signature of the message under the key.
sign(signer, message) == <<AlgCode(signer.alg), signer.key, Digest(message)>>

\* A verifier that takes every signature.
verify_AnySignature(verifier, message, signature) == TRUE

\* JwsVerifier::verify: the signature is the one the key makes of the message.
verify(verifier, message, signature) ==
    signature = <<AlgCode(verifier.alg), verifier.key, Digest(message)>>

Signers ==
    { [alg |-> "EdDSA", key |-> 1, kid |-> None],
      [alg |-> "EdDSA", key |-> 1, kid |-> Some("k1")],
      [alg |-> "RS256", key |-> 2, kid |-> None] }

Verifiers ==
    { [alg |-> "EdDSA", key |-> 1, kid |-> None],
      [alg |-> "EdDSA", key |-> 1, kid |-> Some("k1")],
      [alg |-> "RS256", key |-> 2, kid |-> None],
      [alg |-> "EdDSA", key |-> 3, kid |-> None] }

\* A signer selector Fn(&JwsHeader) -> Option<&dyn JwsSigner>.
SignerSelectors ==
    {[mode |-> "fixed", signer |-> s] : s \in Signers}
    \cup {[mode |-> "none", signer |-> CHOOSE s \in Signers : TRUE]}

ApplySignerSelector(selector, header) ==
    IF selector.mode = "fixed" THEN Some(selector.signer) ELSE None

\* A verifier selector Fn(&JwsHeader) -> Result<Option<&dyn JwsVerifier>, JoseError>:
\* "fixed" is the closure of deserialize_compact, "match" the closure of
\* deserialize_json, "none" and "err" are callers' selectors that decline or fail.
SelSome(v) == [k |-> "some", verifier |-> v]

SelNone(v) == [k |-> "none", verifier |-> v]

SelErr(v) == [k |-> "err", verifier |-> v]

\* The closure failing, where it is to decline, on a header of another
\* algorithm or key id.
MatchSelector_FailsOnMismatch(verifier, header) ==
    IF header_algorithm(header) = Some(verifier.alg)
       /\ (verifier.kid = None \/ header_key_id(header) = verifier.kid)
    THEN SelSome(verifier)
    ELSE SelErr(verifier)

\* The closure deserialize_json passes as its selector.
MatchSelector(verifier, header) ==
    IF header_algorithm(header) = None THEN SelNone(verifier)
    ELSE IF header_algorithm(header)[1] # verifier.alg THEN SelNone(verifier)
    ELSE IF verifier.kid # None /\ header_key_id(header) # verifier.kid
         THEN SelNone(verifier)
    ELSE SelSome(verifier)

ApplyVerifierSelector(selector, header) ==
    IF selector.mode = "fixed" THEN SelSome(selector.verifier)
    ELSE IF selector.mode = "match" THEN MatchSelector(selector.verifier, header)
    ELSE IF selector.mode = "err" THEN SelErr(selector.verifier)
    ELSE SelNone(selector.verifier)

----------------------------------------------------------------------------
(* JSON envelopes: the value of a field is absent, a string, an object or  *)
(* something else.                                                         *)

JNone == [k |-> "none", s |-> <<>>, m |-> EmptyMap]

JStr(s) == [k |-> "str", s |-> s, m |-> EmptyMap]

JObj(m) == [k |-> "obj", s |-> <<>>, m |-> m]

JOther == [k |-> "other", s |-> <<>>, m |-> EmptyMap]

\* An element of the signatures array (k = "obj"), or the top-level object
\* of the flattened form.
Entry(protected, header, signature) ==
    [k |-> "obj", protected |-> protected, header |-> header, signature |-> signature]

NoEntry == Entry(JNone, JNone, JNone)

Envelope(payload, sigk, sigs, flat) ==
    [payload |-> payload, sigk |-> sigk, signatures |-> sigs, flat |-> flat]

NoEnvelope == Envelope(JNone, "none", <<>>, NoEntry)

----------------------------------------------------------------------------
(* Results of the calls, with what the call did on the way                 *)

\* Serialization: the text (compact) or envelope (JSON) returned, how often
\* the selector was called, and the messages handed to signer.sign.
SerOk(text, env, selcalls, signed) ==
    [ok |-> TRUE, kind |-> "", reason |-> "", text |-> text, env |-> env,
     selcalls |-> selcalls, signed |-> signed]

SerErr(kind, reason, selcalls, signed) ==
    [ok |-> FALSE, kind |-> kind, reason |-> reason, text |-> <<>>,
     env |-> NoEnvelope, selcalls |-> selcalls, signed |-> signed]

\* Deserialization: the payload and header returned, the merged headers the
\* selector was called with and what it answered, and the messages handed
\* to verifier.verify.
DesOk(payload, header, seen, selected, verified) ==
    [ok |-> TRUE, kind |-> "", reason |-> "", payload |-> payload,
     header |-> header, seen |-> seen, selected |-> selected,
     verified |-> verified]

DesErr(kind, reason, seen, selected, verified) ==
    [ok |-> FALSE, kind |-> kind, reason |-> reason, payload |-> <<>>,
     header |-> EmptyMap, seen |-> seen, selected |-> selected,
     verified |-> verified]

----------------------------------------------------------------------------
(* JwsContext                                                              *)

is_acceptable_critical_Any(acceptable, name) == TRUE

is_acceptable_critical(acceptable, name) == name \in acceptable

SerializeB64_IgnoringCrit(header) ==
    IF base64url_encode_payload(header) # None
    THEN base64url_encode_payload(header)[1]
    ELSE TRUE

\* The b64 flag a serializer reads from the header it is given:
\* base64url_encode_payload() counts only when critical() lists b64.
SerializeB64(header) ==
    IF /\ critical(header) # None
       /\ Contains(critical(header)[1], "b64")
       /\ base64url_encode_payload(header) # None
    THEN base64url_encode_payload(header)[1]
    ELSE TRUE

\* The claims emitted by the compact and flattened forms: alg from the
\* signer, kid from the signer when it has a key id.
WithSignerClaims(claims, signer) ==
    LET with_alg == Insert(claims, "alg", Str(signer.alg))
    IN IF signer.kid # None
       THEN Insert(with_alg, "kid", Str(signer.kid[1]))
       ELSE with_alg

PayloadHasDot_Unchecked(payload) == FALSE

PayloadHasDot(payload) == Contains(payload, DOT)

serialize_compact_with_selector(payload, header, selector) ==
    LET b64 == SerializeB64(header)
        selected == ApplySignerSelector(selector, header)
    IN IF selected = None
       THEN SerErr("InvalidJwtFormat", "no_signer", 1, <<>>)
       ELSE
       LET signer == selected[1]
           header_bytes == JsonToVec(WithSignerClaims(header, signer))
           head == Base64Encode(header_bytes) \o <<DOT>>
           finish(message) ==
               SerOk(message \o <<DOT>> \o Base64Encode(sign(signer, message)),
                     NoEnvelope, 1, <<message>>)
       IN IF b64 THEN finish(head \o Base64Encode(payload))
          ELSE IF ~IsUtf8(payload)
               THEN SerErr("InvalidJwtFormat", "utf8", 1, <<>>)
          ELSE IF PayloadHasDot(payload)
               THEN SerErr("InvalidJwtFormat", "payload_dot", 1, <<>>)
          ELSE finish(head \o payload)

serialize_compact(payload, header, signer) ==
    serialize_compact_with_selector(payload, header,
                                    [mode |-> "fixed", signer |-> signer])

\* The positions of '.' in the input, in order.
indexies(input) ==
    LET dots == {i \in 1..Len(input) : input[i] = DOT}
        nth[n \in 1..Cardinality(dots)] ==
            CHOOSE i \in dots : Cardinality({j \in dots : j < i}) = n - 1
    IN [n \in 1..Cardinality(dots) |-> nth[n]]

CompactFormOk_AtLeastTwo(input) == Len(indexies(input)) >= 2

CompactFormOk(input) == Len(indexies(input)) = 2

KidCheck_Skipped(verifier, header) == "ok"

\* The header kid against the verifier's key id, when the verifier has one.
KidCheck(verifier, header) ==
    IF verifier.kid = None THEN "ok"
    ELSE IF header_key_id(header) = None THEN "kid_required"
    ELSE IF header_key_id(header) = verifier.kid THEN "ok"
    ELSE "kid_mismatch"

\* The header alg against the verifier's algorithm name.
AlgCheck(verifier, header) ==
    IF claim(header, "alg") = None THEN "alg_required"
    ELSE IF claim(header, "alg")[1].t # "str" THEN "alg_not_string"
    ELSE IF claim(header, "alg")[1].s # verifier.alg THEN "alg_mismatch"
    ELSE "ok"

\* The walk over the crit array of deserialize_compact_with_selector.
CompactCritOk(acceptable, header) ==
    \/ claim(header, "crit") = None
    \/ claim(header, "crit")[1].t # "arr"
    \/ \A i \in 1..Len(claim(header, "crit")[1].a) :
          is_acceptable_critical(acceptable, claim(header, "crit")[1].a[i])

CompactB64_AlwaysDecode(header) == TRUE

CompactB64(header) ==
    IF /\ claim(header, "crit") # None
       /\ claim(header, "crit")[1].t = "arr"
       /\ Contains(claim(header, "crit")[1].a, "b64")
       /\ base64url_encode_payload(header) # None
    THEN base64url_encode_payload(header)[1]
    ELSE TRUE

deserialize_compact_with_selector(acceptable, input, selector) ==
    IF ~CompactFormOk(input)
    THEN DesErr("InvalidJwtFormat", "three_parts", <<>>, <<>>, <<>>)
    ELSE
    LET ix == indexies(input)
        header_b64 == SubSeq(input, 1, ix[1] - 1)
        payload_seg == SubSeq(input, ix[1] + 1, ix[2] - 1)
        signature_b64 == SubSeq(input, ix[2] + 1, Len(input))
        header_bytes == Base64Decode(header_b64)
        header_json == JsonFromSlice(header_bytes.v)
        parsed == from_map(header_json.v)
        header == parsed.v
        answer == ApplyVerifierSelector(selector, header)
        verifier == answer.verifier
        message == SubSeq(input, 1, ix[2] - 1)
        signature == Base64Decode(signature_b64)
        payload == Base64Decode(payload_seg)
        err(kind, reason, verified) ==
            DesErr(kind, reason, <<header>>, <<answer.k>>, verified)
    IN IF ~header_bytes.ok
       THEN DesErr("InvalidJwtFormat", "base64", <<>>, <<>>, <<>>)
       ELSE IF ~header_json.ok
       THEN DesErr("InvalidJwtFormat", "json", <<>>, <<>>, <<>>)
       ELSE IF ~parsed.ok
       THEN DesErr("InvalidJwtFormat", "header", <<>>, <<>>, <<>>)
       ELSE IF answer.k = "err" THEN err("UnsupportedAlgorithm", "selector", <<>>)
       ELSE IF answer.k = "none" THEN err("InvalidJwtFormat", "no_verifier", <<>>)
       ELSE IF AlgCheck(verifier, header) # "ok"
       THEN err("InvalidJwtFormat", AlgCheck(verifier, header), <<>>)
       ELSE IF KidCheck(verifier, header) # "ok"
       THEN err("InvalidJwtFormat", KidCheck(verifier, header), <<>>)
       ELSE IF ~CompactCritOk(acceptable, header)
       THEN err("InvalidJwtFormat", "crit_unsupported", <<>>)
       ELSE IF ~signature.ok THEN err("InvalidJwtFormat", "base64", <<>>)
       ELSE IF ~verify(verifier, message, signature.v)
       THEN err("InvalidSignature", "verify", <<message>>)
       ELSE IF ~CompactB64(header)
       THEN DesOk(payload_seg, header, <<header>>, <<answer.k>>, <<message>>)
       ELSE IF ~payload.ok THEN err("InvalidJwtFormat", "base64", <<message>>)
       ELSE DesOk(payload.v, header, <<header>>, <<answer.k>>, <<message>>)

deserialize_compact(acceptable, input, verifier) ==
    deserialize_compact_with_selector(acceptable, input,
                                      [mode |-> "fixed", verifier |-> verifier])

----------------------------------------------------------------------------
(* The JSON forms                                                          *)

\* A key of the unprotected header that the protected header also has.
DuplicateKey(protected_map, header) ==
    header # None /\ \E key \in DOMAIN header[1] : key \in DOMAIN protected_map

Merge(base, extra) ==
    [c \in (DOMAIN base) \cup (DOMAIN extra) |->
        IF c \in DOMAIN base THEN base[c] ELSE extra[c]]

OptObj(header) == IF header # None THEN JObj(header[1]) ELSE JNone

serialize_flattened_json_with_selector(payload, protected, header, selector) ==
    LET b64 == IF protected # None THEN SerializeB64(protected[1]) ELSE TRUE
        protected_map == IF protected # None THEN protected[1] ELSE EmptyMap
        map == IF header # None THEN Merge(protected_map, header[1])
               ELSE protected_map
        combined == from_map(map)
        selected == ApplySignerSelector(selector, combined.v)
    IN IF DuplicateKey(protected_map, header)
       THEN SerErr("InvalidJwtFormat", "duplicate_key", 0, <<>>)
       ELSE IF ~combined.ok
       THEN SerErr("InvalidJwtFormat", "header", 0, <<>>)
       ELSE IF selected = None
       THEN SerErr("InvalidJwtFormat", "no_signer", 1, <<>>)
       ELSE
       LET signer == selected[1]
           protected_b64 ==
               Base64Encode(JsonToVec(WithSignerClaims(protected_map, signer)))
           payload_text == IF b64 THEN Base64Encode(payload) ELSE payload
           message == protected_b64 \o <<DOT>> \o payload_text
           signature == sign(signer, message)
       IN IF ~b64 /\ ~IsUtf8(payload)
          THEN SerErr("InvalidJwtFormat", "utf8", 1, <<>>)
          ELSE SerOk(<<>>,
                     Envelope(JStr(payload_text), "none", <<>>,
                              Entry(JStr(protected_b64), OptObj(header),
                                    JStr(Base64Encode(signature)))),
                     1, <<message>>)

serialize_flattened_json(payload, protected, header, signer) ==
    serialize_flattened_json_with_selector(payload, protected, header,
                                           [mode |-> "fixed", signer |-> signer])

\* One element of the signatures array of serialize_general_json, for the
\* triple (protected, header, signer) of the JwsMultiSigner.
GeneralProtectedB64(triple) ==
    LET protected == IF triple.protected # None THEN triple.protected[1]
                     ELSE EmptyMap
    IN Base64Encode(JsonToVec(Insert(protected, "alg", Str(triple.signer.alg))))

GeneralMessage(triple, payload_b64) ==
    GeneralProtectedB64(triple) \o <<DOT>> \o payload_b64

serialize_general_json(payload, signers) ==
    LET payload_b64 == Base64Encode(payload)
        entry(triple) ==
            Entry(JStr(GeneralProtectedB64(triple)), OptObj(triple.header),
                  JStr(Base64Encode(sign(triple.signer,
                                         GeneralMessage(triple, payload_b64)))))
    IN SerOk(<<>>,
             Envelope(JStr(payload_b64), "arr",
                      [i \in 1..Len(signers) |-> entry(signers[i])], NoEntry),
             0,
             [i \in 1..Len(signers) |-> GeneralMessage(signers[i], payload_b64)])

\* A key of the protected header that the merged header already has.
MergedDuplicateKey_Never(protected, base) == FALSE

MergedDuplicateKey(protected, base) ==
    \E key \in DOMAIN protected : key \in DOMAIN base

\* The header object the protected claims are merged into.
MergeBase(header, protected) ==
    IF header.k = "obj" THEN header.m ELSE protected

\* The walk over the critical array of deserialize_json_with_selector.
JsonCritOk(acceptable, protected) ==
    \/ "critical" \notin DOMAIN protected
    \/ protected["critical"].t # "arr"
    \/ \A i \in 1..Len(protected["critical"].a) :
          is_acceptable_critical(acceptable, protected["critical"].a[i])

JsonB64(protected) ==
    IF /\ "critical" \in DOMAIN protected
       /\ protected["critical"].t = "arr"
       /\ Contains(protected["critical"].a, "b64")
       /\ "b64" \in DOMAIN protected
    THEN protected["b64"].b
    ELSE TRUE

JsonB64TypeOk(protected) ==
    \/ "critical" \notin DOMAIN protected
    \/ protected["critical"].t # "arr"
    \/ ~Contains(protected["critical"].a, "b64")
    \/ "b64" \notin DOMAIN protected
    \/ protected["b64"].t = "bool"

\* The loop over the signature entries, from entry i on.
RECURSIVE JsonWalk(_, _, _, _, _, _, _)
JsonWalk(acceptable, payload_b64, sigs, selector, i, seen, selected) ==
    IF i > Len(sigs)
    THEN DesErr("InvalidJwtFormat", "no_match", seen, selected, <<>>)
    ELSE
    LET sig == sigs[i]
        header == sig.header
        protected_vec == Base64Decode(sig.protected.s)
        protected_json == JsonFromSlice(protected_vec.v)
        protected == protected_json.v
        base == MergeBase(header, protected)
        merged_map == Merge(base, protected)
        signature == Base64Decode(sig.signature.s)
        parsed == from_map(merged_map)
        merged == parsed.v
        answer == ApplyVerifierSelector(selector, merged)
        verifier == answer.verifier
        message == sig.protected.s \o <<DOT>> \o payload_b64
        payload == Base64Decode(payload_b64)
        seen2 == Append(seen, merged)
        selected2 == Append(selected, answer.k)
        early(reason) == DesErr("InvalidJwtFormat", reason, seen, selected, <<>>)
        err(kind, reason, verified) ==
            DesErr(kind, reason, seen2, selected2, verified)
    IN IF sig.protected.k = "none" THEN early("alg_in_protected")
       ELSE IF sig.protected.k # "str" THEN early("protected_not_string")
       ELSE IF ~protected_vec.ok THEN early("base64")
       ELSE IF ~protected_json.ok THEN early("json")
       ELSE IF "alg" \notin DOMAIN protected THEN early("alg_in_protected")
       ELSE IF header.k \notin {"obj", "none"} THEN early("header_not_object")
       ELSE IF MergedDuplicateKey(protected, base)
       THEN early("duplicate_key")
       ELSE IF sig.signature.k = "none" THEN early("signature_required")
       ELSE IF sig.signature.k # "str" THEN early("signature_not_string")
       ELSE IF ~signature.ok THEN early("base64")
       ELSE IF ~parsed.ok THEN early("header")
       ELSE IF answer.k = "err" THEN err("UnsupportedAlgorithm", "selector", <<>>)
       ELSE IF answer.k = "none"
       THEN JsonWalk(acceptable, payload_b64, sigs, selector, i + 1,
                     seen2, selected2)
       ELSE IF AlgCheck(verifier, merged) # "ok"
       THEN err("InvalidJwtFormat", AlgCheck(verifier, merged), <<>>)
       ELSE IF KidCheck(verifier, merged) # "ok"
       THEN err("InvalidJwtFormat", KidCheck(verifier, merged), <<>>)
       ELSE IF ~JsonCritOk(acceptable, protected)
       THEN err("InvalidJwtFormat", "crit_unsupported", <<>>)
       ELSE IF ~JsonB64TypeOk(protected)
       THEN err("InvalidJwtFormat", "b64_not_bool", <<>>)
       ELSE IF ~verify(verifier, message, signature.v)
       THEN err("InvalidSignature", "verify", <<message>>)
       ELSE IF ~JsonB64(protected)
       THEN DesOk(payload_b64, merged, seen2, selected2, <<message>>)
       ELSE IF ~payload.ok THEN err("InvalidJwtFormat", "base64", <<message>>)
       ELSE DesOk(payload.v, merged, seen2, selected2, <<message>>)

Reverse(seq) == [i \in 1..Len(seq) |-> seq[Len(seq) + 1 - i]]

\* deserialize_json_with_selector walking the signatures from the last entry.
deserialize_json_with_selector_Reversed(acceptable, env, selector) ==
    IF env.payload.k # "str"
    THEN DesErr("InvalidJwtFormat", "payload_required", <<>>, <<>>, <<>>)
    ELSE JsonWalk(acceptable, env.payload.s,
                  IF env.sigk = "arr" THEN Reverse(env.signatures) ELSE <<env.flat>>,
                  selector, 1, <<>>, <<>>)

deserialize_json_with_selector(acceptable, env, selector) ==
    IF env.payload.k = "none"
    THEN DesErr("InvalidJwtFormat", "payload_required", <<>>, <<>>, <<>>)
    ELSE IF env.payload.k # "str"
    THEN DesErr("InvalidJwtFormat", "payload_not_string", <<>>, <<>>, <<>>)
    ELSE IF env.sigk = "other"
    THEN DesErr("InvalidJwtFormat", "signatures_not_array", <<>>, <<>>, <<>>)
    ELSE IF env.sigk = "arr"
            /\ \E i \in 1..Len(env.signatures) : env.signatures[i].k # "obj"
    THEN DesErr("InvalidJwtFormat", "signatures_not_objects", <<>>, <<>>, <<>>)
    ELSE JsonWalk(acceptable, env.payload.s,
                  IF env.sigk = "arr" THEN env.signatures ELSE <<env.flat>>,
                  selector, 1, <<>>, <<>>)

deserialize_json(acceptable, env, verifier) ==
    deserialize_json_with_selector(acceptable, env,
                                   [mode |-> "match", verifier |-> verifier])

----------------------------------------------------------------------------
(* DER: tag, length, value records (crate::der)                            *)

DerInteger == 2

DerBitString == 3

DerOctetString == 4

DerObjectIdentifier == 6

DerSequence == 48

\* The length octets of a record: short form below 128, else one length byte.
DerLength(n) == IF n < 128 THEN <<n>> ELSE <<129, n>>

\* DerBuilder: one record of the given tag and contents.
DerRecord(tag, contents) == <<tag>> \o DerLength(Len(contents)) \o contents

\* DerReader::next at position pos: the tag of the record there, where its
\* contents start and how long they are.
DerNext(input, pos) ==
    IF pos + 1 > Len(input) THEN [ok |-> FALSE, tag |-> 0, start |-> 0, len |-> 0]
    ELSE IF input[pos + 1] < 128
    THEN [ok |-> TRUE, tag |-> input[pos], start |-> pos + 2, len |-> input[pos + 1]]
    ELSE IF input[pos + 1] = 129 /\ pos + 2 <= Len(input)
    THEN [ok |-> TRUE, tag |-> input[pos], start |-> pos + 3, len |-> input[pos + 2]]
    ELSE [ok |-> FALSE, tag |-> 0, start |-> 0, len |-> 0]

\* The contents of a primitive record, when the input holds all of them.
DerContents(input, rec) ==
    IF rec.ok /\ rec.start + rec.len - 1 <= Len(input)
    THEN [ok |-> TRUE, v |-> SubSeq(input, rec.start, rec.start + rec.len - 1)]
    ELSE [ok |-> FALSE, v |-> <<>>]

\* The contents octets of the object identifiers 1.3.101.112 and 1.3.101.113.
OID_ED25519 == <<43, 101, 112>>

OID_ED448 == <<43, 101, 113>>

----------------------------------------------------------------------------
(* EdDSA keys in PKCS#8 / SubjectPublicKeyInfo (src/src/jws/eddsa.rs)      *)

DetectSome(oid) == [k |-> "some", oid |-> oid]

DetectNone == [k |-> "none", oid |-> <<>>]

DetectErr == [k |-> "err", oid |-> <<>>]

\* detect_pkcs8: Ok(Some(oid)), Ok(None) or Err.
detect_pkcs8(input, is_public) ==
    LET outer == DerNext(input, 1)
        version == DerNext(input, outer.start)
        version_val == DerContents(input, version)
        alg_pos == IF is_public THEN outer.start ELSE version.start + version.len
        alg == DerNext(input, alg_pos)
        oid == DerNext(input, alg.start)
        oid_val == DerContents(input, oid)
    IN IF ~outer.ok \/ outer.tag # DerSequence THEN DetectNone
       ELSE IF ~is_public /\ (~version.ok \/ version.tag # DerInteger)
       THEN DetectNone
       ELSE IF ~is_public /\ (~version_val.ok \/ Len(version_val.v) # 1)
       THEN DetectNone
       ELSE IF ~is_public /\ version_val.v # <<0>> THEN DetectErr
       ELSE IF ~alg.ok \/ alg.tag # DerSequence THEN DetectNone
       ELSE IF ~oid.ok \/ oid.tag # DerObjectIdentifier THEN DetectNone
       ELSE IF ~oid_val.ok THEN DetectNone
       ELSE IF oid_val.v \notin {OID_ED25519, OID_ED448} THEN DetectErr
       ELSE DetectSome(oid_val.v)

\* to_pkcs8 with the version left out of a private key.
to_pkcs8_NoVersion(input, is_public, crv) ==
    DerRecord(DerSequence,
              DerRecord(DerSequence, DerRecord(DerObjectIdentifier, crv))
              \o (IF is_public THEN DerRecord(DerBitString, <<0>> \o input)
                  ELSE DerRecord(DerOctetString, input)))

to_pkcs8(input, is_public, crv) ==
    DerRecord(DerSequence,
              (IF is_public THEN <<>> ELSE DerRecord(DerInteger, <<0>>))
              \o DerRecord(DerSequence, DerRecord(DerObjectIdentifier, crv))
              \o (IF is_public THEN DerRecord(DerBitString, <<0>> \o input)
                  ELSE DerRecord(DerOctetString, input)))

\* The raw key width openssl accepts for a curve.
CurveWidth(oid) == IF oid = OID_ED25519 THEN 32 ELSE 57

\* The public key openssl derives from a raw private key.
PublicOf(d) == [i \in 1..Len(d) |-> (d[i] * 7 + 3) % 256]

PKeyOk(oid, raw) == [ok |-> TRUE, oid |-> oid, raw |-> raw]

PKeyErr == [ok |-> FALSE, oid |-> <<>>, raw |-> <<>>]

\* PKey::private_key_from_der: a whole PrivateKeyInfo of an EdDSA curve whose
\* key is an OCTET STRING of the curve's width.
private_key_from_der(input) ==
    LET outer == DerNext(input, 1)
        version == DerNext(input, outer.start)
        version_val == DerContents(input, version)
        alg == DerNext(input, version.start + version.len)
        oid == DerNext(input, alg.start)
        oid_val == DerContents(input, oid)
        key == DerNext(input, alg.start + alg.len)
        key_val == DerContents(input, key)
        inner == DerNext(key_val.v, 1)
        d == DerContents(key_val.v, inner)
    IN IF /\ outer.ok /\ outer.tag = DerSequence
          /\ outer.start + outer.len - 1 = Len(input)
          /\ version.ok /\ version.tag = DerInteger
          /\ version_val.ok /\ version_val.v = <<0>>
          /\ alg.ok /\ alg.tag = DerSequence
          /\ oid.ok /\ oid.tag = DerObjectIdentifier /\ oid_val.ok
          /\ oid.start + oid.len = alg.start + alg.len
          /\ oid_val.v \in {OID_ED25519, OID_ED448}
          /\ key.ok /\ key.tag = DerOctetString /\ key_val.ok
          /\ key.start + key.len - 1 = Len(input)
          /\ inner.ok /\ inner.tag = DerOctetString /\ d.ok
          /\ inner.start + inner.len - 1 = Len(key_val.v)
          /\ Len(d.v) = CurveWidth(oid_val.v)
       THEN PKeyOk(oid_val.v, d.v)
       ELSE PKeyErr

\* PKey::public_key_from_der: a whole SubjectPublicKeyInfo of an EdDSA curve
\* whose key is a BIT STRING of the curve's width.
public_key_from_der(input) ==
    LET outer == DerNext(input, 1)
        alg == DerNext(input, outer.start)
        oid == DerNext(input, alg.start)
        oid_val == DerContents(input, oid)
        key == DerNext(input, alg.start + alg.len)
        key_val == DerContents(input, key)
    IN IF /\ outer.ok /\ outer.tag = DerSequence
          /\ outer.start + outer.len - 1 = Len(input)
          /\ alg.ok /\ alg.tag = DerSequence
          /\ oid.ok /\ oid.tag = DerObjectIdentifier /\ oid_val.ok
          /\ oid.start + oid.len = alg.start + alg.len
          /\ oid_val.v \in {OID_ED25519, OID_ED448}
          /\ key.ok /\ key.tag = DerBitString /\ key_val.ok
          /\ key.start + key.len - 1 = Len(input)
          /\ Len(key_val.v) = CurveWidth(oid_val.v) + 1
          /\ key_val.v[1] = 0
       THEN PKeyOk(oid_val.v, Tail(key_val.v))
       ELSE PKeyErr

\* The result of a key constructor: the signer or verifier [alg, key, kid],
\* or InvalidKeyFormat.  The key of a signer is named by the public key that
\* verifies its signatures.
NoKey == [alg |-> "", key |-> <<>>, kid |-> None]

KeyOk(v) == [ok |-> TRUE, kind |-> "", reason |-> "", v |-> v]

KeyErr(reason) ==
    [ok |-> FALSE, kind |-> "InvalidKeyFormat", reason |-> reason, v |-> NoKey]

EddsaJwsSigner(pkey, key_id) ==
    [alg |-> "EdDSA", key |-> <<pkey.oid, PublicOf(pkey.raw)>>, kid |-> key_id]

EddsaJwsVerifier(pkey, key_id) ==
    [alg |-> "EdDSA", key |-> <<pkey.oid, pkey.raw>>, kid |-> key_id]

\* util::parse_pem: the label and the decoded body of a framed text.
parse_pem(input) ==
    [ok |-> input.framed, alg |-> input.label, data |-> input.data]

\* The match over the label with the curve of the label left unchecked.
LabelOids_AnyCurve(alg, generic, ed25519, ed448) ==
    IF alg \in {generic, ed25519, ed448} THEN Some({OID_ED25519, OID_ED448})
    ELSE None

\* The curve a PEM label names: none for the generic label.
LabelOids(alg, generic, ed25519, ed448) ==
    IF alg = generic THEN Some({OID_ED25519, OID_ED448})
    ELSE IF alg = ed25519 THEN Some({OID_ED25519})
    ELSE IF alg = ed448 THEN Some({OID_ED448})
    ELSE None

signer_from_der(input) ==
    LET detected == detect_pkcs8(input, FALSE)
        pkey == private_key_from_der(input)
    IN IF detected.k = "err" THEN KeyErr("detect")
       ELSE IF detected.k = "none" THEN KeyErr("not_pkcs8")
       ELSE IF ~pkey.ok THEN KeyErr("pkey")
       ELSE KeyOk(EddsaJwsSigner(pkey, None))

verifier_from_der(input) ==
    LET detected == detect_pkcs8(input, TRUE)
        pkey == public_key_from_der(input)
    IN IF detected.k = "err" THEN KeyErr("detect")
       ELSE IF detected.k = "none" THEN KeyErr("not_pkcs8")
       ELSE IF ~pkey.ok THEN KeyErr("pkey")
       ELSE KeyOk(EddsaJwsVerifier(pkey, None))

signer_from_pem(input) ==
    LET parsed == parse_pem(input)
        oids == LabelOids(parsed.alg, "PRIVATE KEY", "ED25519 PRIVATE KEY",
                          "ED448 PRIVATE KEY")
        detected == detect_pkcs8(parsed.data, FALSE)
        pkey == private_key_from_der(parsed.data)
    IN IF ~parsed.ok THEN KeyErr("pem")
       ELSE IF oids = None THEN KeyErr("algorithm")
       ELSE IF detected.k = "err" THEN KeyErr("detect")
       ELSE IF detected.k = "none" THEN KeyErr("not_pkcs8")
       ELSE IF detected.oid \notin oids[1] THEN KeyErr("curve_mismatch")
       ELSE IF ~pkey.ok THEN KeyErr("pkey")
       ELSE KeyOk(EddsaJwsSigner(pkey, None))

verifier_from_pem(input) ==
    LET parsed == parse_pem(input)
        oids == LabelOids(parsed.alg, "PUBLIC KEY", "ED25519 PUBLIC KEY",
                          "ED448 PUBLIC KEY")
        detected == detect_pkcs8(parsed.data, TRUE)
        pkey == public_key_from_der(parsed.data)
    IN IF ~parsed.ok THEN KeyErr("pem")
       ELSE IF oids = None THEN KeyErr("algorithm")
       ELSE IF detected.k = "err" THEN KeyErr("detect")
       ELSE IF detected.k = "none" THEN KeyErr("not_pkcs8")
       ELSE IF detected.oid \notin oids[1] THEN KeyErr("curve_mismatch")
       ELSE IF ~pkey.ok THEN KeyErr("pkey")
       ELSE KeyOk(EddsaJwsVerifier(pkey, None))

----------------------------------------------------------------------------
(* JWK: [kty, use, key_ops, alg, kid, crv, d, x, k], the optional ones as  *)
(* options; crv holds a JSON value, d, x and k a JSON string of base64url  *)
(* text or another JSON value                                              *)

key_type(jwk) == jwk.kty

key_use(jwk) == jwk.use

key_operations(jwk) == jwk.key_ops

jwk_algorithm(jwk) == jwk.alg

jwk_key_id(jwk) == jwk.kid

parameter(jwk, name) == jwk[name]

\* The key_ops check with one of the operations enough.
JwkOpsOk_AnyOne(jwk, ops) ==
    \/ key_operations(jwk) = None
    \/ \E op \in ops : Contains(key_operations(jwk)[1], op)

\* The key_ops check: no key_ops, or key_ops with every operation of the role.
JwkOpsOk(jwk, ops) ==
    \/ key_operations(jwk) = None
    \/ \A op \in ops : Contains(key_operations(jwk)[1], op)

\* The checks of kty, use, key_ops and alg a JWK constructor starts with:
\* the first that fails, or "ok".
JwkChecks_AlgUnchecked(jwk, kty, use, ops, name) ==
    IF key_type(jwk) # kty THEN "kty"
    ELSE IF key_use(jwk) # None /\ key_use(jwk) # Some(use) THEN "use"
    ELSE IF ~JwkOpsOk(jwk, ops) THEN "key_ops"
    ELSE "ok"

JwkChecks(jwk, kty, use, ops, name) ==
    IF key_type(jwk) # kty THEN "kty"
    ELSE IF key_use(jwk) # None /\ key_use(jwk) # Some(use) THEN "use"
    ELSE IF ~JwkOpsOk(jwk, ops) THEN "key_ops"
    ELSE IF jwk_algorithm(jwk) # None /\ jwk_algorithm(jwk) # Some(name) THEN "alg"
    ELSE "ok"

\* The curve of the crv parameter, Ed25519 when there is none.
JwkCurve_DefaultEd25519(jwk) ==
    LET crv == parameter(jwk, "crv")
    IN IF crv = None THEN [ok |-> TRUE, oid |-> OID_ED25519]
       ELSE IF crv[1] = Str("Ed25519") THEN [ok |-> TRUE, oid |-> OID_ED25519]
       ELSE IF crv[1] = Str("Ed448") THEN [ok |-> TRUE, oid |-> OID_ED448]
       ELSE [ok |-> FALSE, oid |-> <<>>]

\* The curve of the crv parameter: "Ed25519" or "Ed448", else an error.
JwkCurve(jwk) ==
    LET crv == parameter(jwk, "crv")
    IN IF crv = None THEN [ok |-> FALSE, oid |-> <<>>]
       ELSE IF crv[1] = Str("Ed25519") THEN [ok |-> TRUE, oid |-> OID_ED25519]
       ELSE IF crv[1] = Str("Ed448") THEN [ok |-> TRUE, oid |-> OID_ED448]
       ELSE [ok |-> FALSE, oid |-> <<>>]

\* A parameter that must be a JSON string of base64url text, decoded.
JwkBytes(jwk, name) ==
    LET val == parameter(jwk, name)
    IN IF val = None THEN [ok |-> FALSE, v |-> <<>>, reason |-> "required"]
       ELSE IF val[1].k # "str" THEN [ok |-> FALSE, v |-> <<>>, reason |-> "not_string"]
       ELSE IF ~Base64Decode(val[1].s).ok
       THEN [ok |-> FALSE, v |-> <<>>, reason |-> "base64"]
       ELSE [ok |-> TRUE, v |-> Base64Decode(val[1].s).v, reason |-> ""]

signer_from_jwk(jwk) ==
    LET checks == JwkChecks(jwk, "OKP", "sig", {"sign"}, "EdDSA")
        curve == JwkCurve(jwk)
        d == JwkBytes(jwk, "d")
        pkcs8 == to_pkcs8(DerRecord(DerOctetString, d.v), FALSE, curve.oid)
        pkey == private_key_from_der(pkcs8)
    IN IF checks # "ok" THEN KeyErr(checks)
       ELSE IF ~curve.ok THEN KeyErr("crv")
       ELSE IF ~d.ok THEN KeyErr("d_" \o d.reason)
       ELSE IF ~pkey.ok THEN KeyErr("pkey")
       ELSE KeyOk(EddsaJwsSigner(pkey, jwk_key_id(jwk)))

\* verifier_from_jwk taking the key from d instead of x.
verifier_from_jwk_ReadsD(jwk) ==
    LET checks == JwkChecks(jwk, "OKP", "sig", {"verify"}, "EdDSA")
        curve == JwkCurve(jwk)
        x == JwkBytes(jwk, "d")
        pkcs8 == to_pkcs8(x.v, TRUE, curve.oid)
        pkey == public_key_from_der(pkcs8)
    IN IF checks # "ok" THEN KeyErr(checks)
       ELSE IF ~curve.ok THEN KeyErr("crv")
       ELSE IF ~x.ok THEN KeyErr("x_" \o x.reason)
       ELSE IF ~pkey.ok THEN KeyErr("pkey")
       ELSE KeyOk(EddsaJwsVerifier(pkey, jwk_key_id(jwk)))

verifier_from_jwk(jwk) ==
    LET checks == JwkChecks(jwk, "OKP", "sig", {"verify"}, "EdDSA")
        curve == JwkCurve(jwk)
        x == JwkBytes(jwk, "x")
        pkcs8 == to_pkcs8(x.v, TRUE, curve.oid)
        pkey == public_key_from_der(pkcs8)
    IN IF checks # "ok" THEN KeyErr(checks)
       ELSE IF ~curve.ok THEN KeyErr("crv")
       ELSE IF ~x.ok THEN KeyErr("x_" \o x.reason)
       ELSE IF ~pkey.ok THEN KeyErr("pkey")
       ELSE KeyOk(EddsaJwsVerifier(pkey, jwk_key_id(jwk)))

----------------------------------------------------------------------------
(* AES key wrap (src/src/jwe/alg/aes.rs)                                   *)

AesJweAlgorithm == {"A128KW", "A192KW", "A256KW"}

key_len_Shortest(alg) == 16

key_len(alg) ==
    IF alg = "A128KW" THEN 16 ELSE IF alg = "A192KW" THEN 24 ELSE 32

AesKey(alg, k, key_id) == [alg |-> alg, key |-> k, kid |-> key_id]

encrypter_from_jwk(alg, jwk) ==
    LET checks == JwkChecks(jwk, "oct", "enc", {"encrypt", "wrapKey"}, alg)
        k == JwkBytes(jwk, "k")
    IN IF checks # "ok" THEN KeyErr(checks)
       ELSE IF ~k.ok THEN KeyErr("k_" \o k.reason)
       ELSE IF Len(k.v) # key_len(alg) THEN KeyErr("key_size")
       ELSE KeyOk(AesKey(alg, k.v, jwk_key_id(jwk)))

decrypter_from_jwk(alg, jwk) ==
    LET checks == JwkChecks(jwk, "oct", "enc", {"decrypt", "unwrapKey"}, alg)
        k == JwkBytes(jwk, "k")
    IN IF checks # "ok" THEN KeyErr(checks)
       ELSE IF ~k.ok THEN KeyErr("k_" \o k.reason)
       ELSE IF Len(k.v) # key_len(alg) THEN KeyErr("key_size")
       ELSE KeyOk(AesKey(alg, k.v, jwk_key_id(jwk)))

\* The integrity block of RFC 3394 for a key and the key it wraps.
RECURSIVE WrapSum(_, _, _, _)
WrapSum(k, cek, lo, hi) ==
    IF lo > hi THEN 0
    ELSE IF lo = hi
    THEN ((cek[lo] + lo) * (2 * k[((lo - 1) % Len(k)) + 1] + 1)) % 256
    ELSE (WrapSum(k, cek, lo, (lo + hi) \div 2)
          + WrapSum(k, cek, (lo + hi) \div 2 + 1, hi)) % 256

WrapCheck(k, cek) ==
    [i \in 1..8 |-> (166 + WrapSum(k, cek, 1, Len(cek)) + i) % 256]

WrapMask(k, bytes, dir) ==
    [i \in 1..Len(bytes) |-> (bytes[i] + dir * k[((i - 1) % Len(k)) + 1] + 256) % 256]

\* openssl::aes::wrap_key: eight octets more than the input, or an error for
\* an input that is not a multiple of eight octets of at least sixteen.
wrap_key(k, in) ==
    IF Len(in) % 8 # 0 \/ Len(in) < 16 THEN [ok |-> FALSE, v |-> <<>>]
    ELSE [ok |-> TRUE, v |-> WrapCheck(k, in) \o WrapMask(k, in, 1)]

\* openssl::aes::unwrap_key: the wrapped key, or an error when the integrity
\* block does not match.
unwrap_key(k, in) ==
    LET cek == WrapMask(k, SubSeq(in, 9, Len(in)), -1)
    IN IF Len(in) % 8 # 0 \/ Len(in) < 24 THEN [ok |-> FALSE, v |-> <<>>]
       ELSE IF SubSeq(in, 1, 8) # WrapCheck(k, cek) THEN [ok |-> FALSE, v |-> <<>>]
       ELSE [ok |-> TRUE, v |-> cek]

\* JweHeader::set_algorithm.
set_algorithm(header, name) == Insert(header, "alg", Str(name))

EncryptOk(cek, encrypted_key, header) ==
    [ok |-> TRUE, kind |-> "", cek |-> cek, encrypted_key |-> encrypted_key,
     header |-> header]

EncryptErr(header) ==
    [ok |-> FALSE, kind |-> "InvalidKeyFormat", cek |-> <<>>,
     encrypted_key |-> None, header |-> header]

\* AesJweEncrypter::encrypt with the wrapped key cut to the length asked for.
encrypt_Truncated(encrypter, header, len, random) ==
    LET wrapped == wrap_key(encrypter.key, random)
    IN IF ~wrapped.ok THEN EncryptErr(header)
       ELSE EncryptOk(random, Some(SubSeq(wrapped.v, 1, len)),
                      set_algorithm(header, encrypter.alg))

\* AesJweEncrypter::encrypt, for the octets rand_bytes gives.
encrypt(encrypter, header, len, random) ==
    LET wrapped == wrap_key(encrypter.key, random)
    IN IF ~wrapped.ok THEN EncryptErr(header)
       ELSE EncryptOk(random, Some(wrapped.v), set_algorithm(header, encrypter.alg))

DecryptOk(cek) == [ok |-> TRUE, kind |-> "", cek |-> cek]

DecryptErr(kind) == [ok |-> FALSE, kind |-> kind, cek |-> <<>>]

\* AesJweDecrypter::decrypt: the outcomes the call can have.  unwrap_key
\* panics on an output buffer of more than the input less eight octets, and
\* writes past a shorter one.
decrypt(decrypter, header, encrypted_key, len) ==
    IF encrypted_key = None THEN {DecryptErr("InvalidJweFormat")}
    ELSE LET in == encrypted_key[1]
             unwrapped == unwrap_key(decrypter.key, in)
             returned == IF unwrapped.ok
                         THEN DecryptOk(SubSeq(unwrapped.v, 1, len))
                         ELSE DecryptErr("InvalidJweFormat")
         IN IF len + 8 > Len(in) THEN {DecryptErr("panic")}
            ELSE IF len + 8 < Len(in) THEN {DecryptErr("panic"), returned}
            ELSE {returned}

----------------------------------------------------------------------------
(* The inputs the calls are made with                                      *)

MapOf(pairs) ==
    [c \in {p[1] : p \in pairs} |-> (CHOOSE p \in pairs : p[1] = c)[2]]

\* The critical names a caller adds to or removes from the context.
Names == {"b64", "exp"}

\* The headers handed to the serializers.
Headers ==
    { EmptyMap,
      MapOf({<<"b64", Bool(FALSE)>>, <<"crit", Arr(<<"b64">>)>>}),
      MapOf({<<"b64", Bool(FALSE)>>}),
      MapOf({<<"crit", Arr(<<"exp">>)>>}),
      MapOf({<<"kid", Str("k2")>>}),
      MapOf({<<"alg", Str("none")>>}),
      MapOf({<<"critical", Arr(<<"exp">>)>>}),
      MapOf({<<"b64", Bool(FALSE)>>, <<"crit", Arr(<<"b64", "exp">>)>>}) }

\* The unprotected headers handed to serialize_flattened_json.
Unprotected ==
    { None,
      Some(MapOf({<<"typ", Str("JWT")>>})),
      Some(MapOf({<<"kid", Str("k2")>>})) }

\* The (protected, header, signer) triples a JwsMultiSigner holds.
Triple(protected, header, signer) ==
    [protected |-> protected, header |-> header, signer |-> signer]

Triples ==
    { Triple(None, Some(MapOf({<<"typ", Str("JWT")>>})),
             [alg |-> "EdDSA", key |-> 1, kid |-> None]),
      Triple(Some(MapOf({<<"crit", Arr(<<"exp">>)>>})),
             Some(MapOf({<<"typ", Str("JWT")>>})),
             [alg |-> "RS256", key |-> 2, kid |-> None]),
      Triple(None, None, [alg |-> "EdDSA", key |-> 1, kid |-> None]),
      Triple(Some(MapOf({<<"kid", Str("k2")>>})),
             Some(MapOf({<<"kid", Str("k2")>>})),
             [alg |-> "RS256", key |-> 2, kid |-> None]),
      Triple(Some(MapOf({<<"alg", Str("none")>>, <<"b64", Bool(FALSE)>>,
                         <<"crit", Arr(<<"b64">>)>>})),
             Some(MapOf({<<"typ", Str("JWT")>>})),
             [alg |-> "EdDSA", key |-> 1, kid |-> Some("k1")]) }

\* The signers of a JwsMultiSigner; the signer with a key id comes first.
MultiSigners ==
    {ms \in UNION {[1..n -> Triples] : n \in 0..MaxSigners} :
        \A i \in 2..Len(ms) : ms[i].signer.kid = None}

\* Callers' verifier selectors other than the two closures of the context.
OtherVerifierSelectors ==
    {[mode |-> m, verifier |-> CHOOSE v \in Verifiers : TRUE] : m \in {"none", "err"}}

WithoutDots(text) == SelectSeq(text, LAMBDA c : c # DOT)

DropLastDot(text) ==
    LET ix == indexies(text)
        last == ix[Len(ix)]
    IN SubSeq(text, 1, last - 1) \o SubSeq(text, last + 1, Len(text))

FlipLast(text) ==
    [text EXCEPT ![Len(text)] = IF text[Len(text)] = 65 THEN 66 ELSE 65]

\* What a recipient may be handed in place of a compact serialization: the
\* text itself, the text with dots removed or added, the text with its
\* signature altered.
CompactInputs(text) ==
    {text, WithoutDots(text), DropLastDot(text), text \o <<DOT>>, FlipLast(text)}

----------------------------------------------------------------------------
(* The key material the constructors are called with                       *)

Jwk(kty, use, key_ops, alg, kid, crv, d, x, k) ==
    [kty |-> kty, use |-> use, key_ops |-> key_ops, alg |-> alg, kid |-> kid,
     crv |-> crv, d |-> d, x |-> x, k |-> k]

NoJwk == Jwk("", None, None, None, None, None, None, None, None)

\* A raw key of n octets.
RawKey(seed, n) == [i \in 1..n |-> seed]

B64Param(bytes) == Some(JStr(Base64Encode(bytes)))

\* OKP keys: every combination of alg, crv, d and x, the d and x of either
\* curve's width, and on a valid key every combination of kty, use, key_ops
\* and kid.
EddsaJwks ==
    { Jwk("OKP", None, None, alg, None, crv, d, x, None) :
        alg \in {None, Some("EdDSA"), Some("ES256")},
        crv \in {None, Some(Str("Ed25519")), Some(Str("Ed448")),
                 Some(Str("P-256")), Some(Num)},
        d \in {None, Some(JOther), B64Param(RawKey(1, 32)), B64Param(RawKey(1, 57))},
        x \in {None, Some(JOther), B64Param(PublicOf(RawKey(1, 32))),
               B64Param(PublicOf(RawKey(1, 57))), B64Param(PublicOf(RawKey(2, 32)))} }
    \cup
    { Jwk(kty, use, key_ops, None, kid, Some(Str("Ed25519")),
          B64Param(RawKey(1, 32)), B64Param(PublicOf(RawKey(1, 32))), None) :
        kty \in {"OKP", "oct"},
        use \in {None, Some("sig"), Some("enc")},
        key_ops \in {None, Some(<<"sign", "verify">>), Some(<<"sign">>),
                     Some(<<"verify">>), Some(<<"encrypt">>)},
        kid \in {None, Some("k1")} }

\* oct keys: every combination of alg and k, the k of the lengths around the
\* three key sizes, and on a valid key every combination of kty, use,
\* key_ops and kid.
AesJwks ==
    { Jwk("oct", None, None, alg, None, None, None, None, k) :
        alg \in {None, Some("A128KW"), Some("A192KW"), Some("A256KW"), Some("EdDSA")},
        k \in {None, Some(JOther), Some(JStr(<<DOT>>))}
              \cup {B64Param(RawKey(1, n)) : n \in {15, 16, 24, 32, 33}}
              \cup {B64Param(RawKey(2, 16))} }
    \cup
    { Jwk(kty, use, key_ops, None, kid, None, None, None, B64Param(RawKey(1, 16))) :
        kty \in {"OKP", "oct"},
        use \in {None, Some("sig"), Some("enc")},
        key_ops \in {None, Some(<<"encrypt", "wrapKey", "decrypt", "unwrapKey">>),
                     Some(<<"encrypt", "wrapKey">>), Some(<<"decrypt", "unwrapKey">>),
                     Some(<<"encrypt">>)},
        kid \in {None, Some("k1")} }

Jwks == EddsaJwks \cup AesJwks

\* The key a decrypter is built from once a key was wrapped: the encrypter's
\* own or another one.
PairedAesJwks(jwk) ==
    {jwk, Jwk("oct", None, None, None, None, None, None, None, B64Param(RawKey(2, 16)))}

\* DER inputs: the PKCS#8 and SubjectPublicKeyInfo of keys of both curves,
\* and inputs that are not: no sequence, a version 1, another algorithm, a
\* key of the wrong width, no key at all.
PrivateDer(seed, oid) ==
    to_pkcs8(DerRecord(DerOctetString, RawKey(seed, CurveWidth(oid))), FALSE, oid)

PublicDer(seed, oid) ==
    to_pkcs8(PublicOf(RawKey(seed, CurveWidth(oid))), TRUE, oid)

DerInputs ==
    {PrivateDer(1, oid) : oid \in {OID_ED25519, OID_ED448}}
    \cup {PublicDer(seed, oid) : seed \in {1, 2}, oid \in {OID_ED25519, OID_ED448}}
    \cup { <<>>,
           DerRecord(DerOctetString, <<1>>),
           DerRecord(DerSequence,
                     DerRecord(DerInteger, <<1>>)
                     \o DerRecord(DerSequence, DerRecord(DerObjectIdentifier, OID_ED25519))
                     \o DerRecord(DerOctetString,
                                  DerRecord(DerOctetString, RawKey(1, 32)))),
           to_pkcs8(DerRecord(DerOctetString, RawKey(1, 32)), FALSE, <<42, 134, 72>>),
           to_pkcs8(DerRecord(DerOctetString, RawKey(1, 32)), FALSE, OID_ED448),
           to_pkcs8(PublicOf(RawKey(1, 57)), TRUE, OID_ED25519),
           DerRecord(DerSequence,
                     DerRecord(DerInteger, <<0>>)
                     \o DerRecord(DerSequence, DerRecord(DerObjectIdentifier, OID_ED448))) }

Pem(framed, label, data) == [framed |-> framed, label |-> label, data |-> data]

NoPem == Pem(FALSE, "", <<>>)

PemLabels ==
    {"PRIVATE KEY", "ED25519 PRIVATE KEY", "ED448 PRIVATE KEY",
     "PUBLIC KEY", "ED25519 PUBLIC KEY", "ED448 PUBLIC KEY", "RSA PRIVATE KEY"}

PemInputs ==
    {Pem(TRUE, label, data) : label \in PemLabels, data \in DerInputs}
    \cup {Pem(FALSE, "PRIVATE KEY", PrivateDer(1, OID_ED25519))}

\* The messages signed and the octets rand_bytes may give.
Messages == {<<>>, <<97>>}

RandomBytes(n) == {[i \in 1..n |-> 0], [i \in 1..n |-> i]}

KeyLens == {16, 20, 24, 32}

JweHeaders == {EmptyMap, MapOf({<<"alg", Str("dir")>>})}

\* The raw keys and flags to_pkcs8 is called with.
RawInputs == {RawKey(1, n) : n \in {0, 1, 32, 57, 128}}

----------------------------------------------------------------------------
(* The state: a JwsContext, the last serialization and the last            *)
(* deserialization made with it                                            *)

VARIABLES acceptable_criticals, out, res

\* For each name, the most recent add_acceptable_critical or
\* remove_acceptable_critical call that named it, where calls are recorded.
VARIABLE calls

\* The keys built and used: the last signer constructor call, the last sign
\* call, the last verifier constructor call and the last verify call; the
\* same for the AES encrypter and decrypter; the last to_pkcs8 and
\* detect_pkcs8 calls.
VARIABLES signer_key, signature, verifier_key, verification,
          encrypter_key, encryption, decrypter_key, decryption, pkcs8

eddsavars == <<signer_key, signature, verifier_key, verification>>

aesvars == <<encrypter_key, encryption, decrypter_key, decryption>>

keyvars == <<eddsavars, aesvars, pkcs8>>

jwsvars == <<acceptable_criticals, out, res, calls>>

KeyCall(op, alg, jwk, pem, der, r) ==
    [op |-> op, alg |-> alg, jwk |-> jwk, pem |-> pem, der |-> der, r |-> r]

NoKeyCall == KeyCall("none", "", NoJwk, NoPem, <<>>, KeyErr(""))

NoSignature == [op |-> "none", message |-> <<>>, signature |-> <<>>]

NoVerification ==
    [op |-> "none", message |-> <<>>, signature |-> <<>>, ok |-> FALSE, kind |-> ""]

NoEncryption ==
    [op |-> "none", header |-> EmptyMap, len |-> 0, r |-> EncryptErr(EmptyMap)]

NoDecryption ==
    [op |-> "none", encrypted_key |-> None, len |-> 0, r |-> DecryptErr("")]

NoPkcs8 ==
    [op |-> "none", input |-> <<>>, is_public |-> FALSE, crv |-> <<>>,
     der |-> <<>>, probed_public |-> FALSE, detected |-> DetectNone]

KeyInit ==
    /\ signer_key = NoKeyCall
    /\ signature = NoSignature
    /\ verifier_key = NoKeyCall
    /\ verification = NoVerification
    /\ encrypter_key = NoKeyCall
    /\ encryption = NoEncryption
    /\ decrypter_key = NoKeyCall
    /\ decryption = NoDecryption
    /\ pkcs8 = NoPkcs8

vars == <<jwsvars, keyvars>>

NoSignerSelector == [mode |-> "none", signer |-> CHOOSE s \in Signers : TRUE]

NoVerifierSelector == [mode |-> "none", verifier |-> CHOOSE v \in Verifiers : TRUE]

Out(op, payload, protected, header, selector, signers, r) ==
    [op |-> op, payload |-> payload, protected |-> protected,
     header |-> header, selector |-> selector, signers |-> signers, r |-> r]

\* acceptable: the acceptable-critical set at the time of the call.
Res(op, acceptable, text, env, selector, r) ==
    [op |-> op, acceptable |-> acceptable, text |-> text, env |-> env,
     selector |-> selector, r |-> r]

NoOut == Out("none", <<>>, None, None, NoSignerSelector, <<>>,
             SerErr("", "", 0, <<>>))

NoRes == Res("none", {}, <<>>, NoEnvelope, NoVerifierSelector,
             DesErr("", "", <<>>, <<>>, <<>>))

\* JwsContext::new
Init ==
    /\ acceptable_criticals = {}
    /\ out = NoOut
    /\ res = NoRes
    /\ calls = [name \in Names |-> "none"]
    /\ KeyInit

\* BTreeSet::insert and BTreeSet::remove on the acceptable-critical set.
insert_Replacing(set, name) == {name}

insert(set, name) == set \cup {name}

remove(set, name) == set \ {name}

add_acceptable_critical ==
    \E name \in Names :
        /\ acceptable_criticals' = insert(acceptable_criticals, name)
        /\ UNCHANGED <<out, res, keyvars, calls>>

remove_acceptable_critical ==
    \E name \in Names :
        /\ acceptable_criticals' = remove(acceptable_criticals, name)
        /\ UNCHANGED <<out, res, keyvars, calls>>

\* The same two calls, each recorded under the name it was given.
AddAcceptableCritical ==
    \E name \in Names :
        /\ acceptable_criticals' = insert(acceptable_criticals, name)
        /\ calls' = [calls EXCEPT ![name] = "add"]
        /\ UNCHANGED <<out, res, keyvars>>

RemoveAcceptableCritical ==
    \E name \in Names :
        /\ acceptable_criticals' = remove(acceptable_criticals, name)
        /\ calls' = [calls EXCEPT ![name] = "remove"]
        /\ UNCHANGED <<out, res, keyvars>>

SerializeCompact ==
    /\ out.op = "none"
    /\ \E payload \in Payloads, header \in Headers, signer \in Signers :
          out' = Out("compact", payload, Some(header), None,
                     [mode |-> "fixed", signer |-> signer], <<>>,
                     serialize_compact(payload, header, signer))
    /\ UNCHANGED <<acceptable_criticals, res, keyvars, calls>>

SerializeCompactWithSelector ==
    /\ out.op = "none"
    /\ \E payload \in Payloads, header \in Headers, selector \in SignerSelectors :
          out' = Out("compact", payload, Some(header), None, selector, <<>>,
                     serialize_compact_with_selector(payload, header, selector))
    /\ UNCHANGED <<acceptable_criticals, res, keyvars, calls>>

SerializeFlattenedJson ==
    /\ out.op = "none"
    /\ \E payload \in Payloads, protected \in {None} \cup {Some(h) : h \in Headers},
          header \in Unprotected, signer \in Signers :
          out' = Out("flattened", payload, protected, header,
                     [mode |-> "fixed", signer |-> signer], <<>>,
                     serialize_flattened_json(payload, protected, header, signer))
    /\ UNCHANGED <<acceptable_criticals, res, keyvars, calls>>

SerializeFlattenedJsonWithSelector ==
    /\ out.op = "none"
    /\ \E payload \in Payloads, protected \in {None} \cup {Some(h) : h \in Headers},
          header \in Unprotected, selector \in SignerSelectors :
          out' = Out("flattened", payload, protected, header, selector, <<>>,
                     serialize_flattened_json_with_selector(payload, protected,
                                                            header, selector))
    /\ UNCHANGED <<acceptable_criticals, res, keyvars, calls>>

SerializeGeneralJson ==
    /\ out.op = "none"
    /\ \E payload \in Payloads, signers \in MultiSigners :
          out' = Out("general", payload, None, None, NoSignerSelector, signers,
                     serialize_general_json(payload, signers))
    /\ UNCHANGED <<acceptable_criticals, res, keyvars, calls>>

DeserializeCompact ==
    /\ out.op = "compact"
    /\ out.r.ok
    /\ res.op = "none"
    /\ \E input \in CompactInputs(out.r.text), verifier \in Verifiers :
          res' = Res("compact", acceptable_criticals, input, NoEnvelope,
                     [mode |-> "fixed", verifier |-> verifier],
                     deserialize_compact(acceptable_criticals, input, verifier))
    /\ UNCHANGED <<acceptable_criticals, out, keyvars, calls>>

DeserializeCompactWithSelector ==
    /\ out.op = "compact"
    /\ out.r.ok
    /\ res.op = "none"
    /\ \E input \in CompactInputs(out.r.text),
          selector \in OtherVerifierSelectors
                       \cup {[mode |-> "fixed", verifier |-> v] : v \in Verifiers} :
          res' = Res("compact", acceptable_criticals, input, NoEnvelope, selector,
                     deserialize_compact_with_selector(acceptable_criticals,
                                                       input, selector))
    /\ UNCHANGED <<acceptable_criticals, out, keyvars, calls>>

DeserializeJson ==
    /\ out.op \in {"flattened", "general"}
    /\ out.r.ok
    /\ res.op = "none"
    /\ \E verifier \in Verifiers :
          res' = Res("json", acceptable_criticals, <<>>, out.r.env,
                     [mode |-> "match", verifier |-> verifier],
                     deserialize_json(acceptable_criticals, out.r.env, verifier))
    /\ UNCHANGED <<acceptable_criticals, out, keyvars, calls>>

DeserializeJsonWithSelector ==
    /\ out.op \in {"flattened", "general"}
    /\ out.r.ok
    /\ res.op = "none"
    /\ \E selector \in OtherVerifierSelectors
                       \cup {[mode |-> "match", verifier |-> v] : v \in Verifiers}
                       \cup {[mode |-> "fixed",
                              verifier |-> [alg |-> "EdDSA", key |-> 1, kid |-> Some("k1")]]} :
          res' = Res("json", acceptable_criticals, <<>>, out.r.env, selector,
                     deserialize_json_with_selector(acceptable_criticals,
                                                    out.r.env, selector))
    /\ UNCHANGED <<acceptable_criticals, out, keyvars, calls>>

\* No AES key and no PKCS#8 call was made: the behaviour is one of EdDSA keys.
EddsaScenario ==
    /\ encrypter_key.op = "none"
    /\ decrypter_key.op = "none"
    /\ pkcs8.op = "none"

AesScenario ==
    /\ signer_key.op = "none"
    /\ verifier_key.op = "none"
    /\ pkcs8.op = "none"

SignerFromJwk ==
    /\ EddsaScenario
    /\ signer_key.op = "none"
    /\ verifier_key.op = "none"
    /\ \E jwk \in Jwks :
          signer_key' = KeyCall("signer_from_jwk", "EdDSA", jwk, NoPem, <<>>,
                                signer_from_jwk(jwk))
    /\ UNCHANGED <<jwsvars, signature, verifier_key, verification, aesvars, pkcs8>>

SignerFromPem ==
    /\ EddsaScenario
    /\ signer_key.op = "none"
    /\ verifier_key.op = "none"
    /\ \E pem \in PemInputs :
          signer_key' = KeyCall("signer_from_pem", "EdDSA", NoJwk, pem, <<>>,
                                signer_from_pem(pem))
    /\ UNCHANGED <<jwsvars, signature, verifier_key, verification, aesvars, pkcs8>>

SignerFromDer ==
    /\ EddsaScenario
    /\ signer_key.op = "none"
    /\ verifier_key.op = "none"
    /\ \E der \in DerInputs :
          signer_key' = KeyCall("signer_from_der", "EdDSA", NoJwk, NoPem, der,
                                signer_from_der(der))
    /\ UNCHANGED <<jwsvars, signature, verifier_key, verification, aesvars, pkcs8>>

Sign ==
    /\ signer_key.r.ok
    /\ signature.op = "none"
    /\ verifier_key.op = "none"
    /\ \E message \in Messages :
          signature' = [op |-> "sign", message |-> message,
                        signature |-> sign(signer_key.r.v, message)]
    /\ UNCHANGED <<jwsvars, signer_key, verifier_key, verification, aesvars, pkcs8>>

\* A verifier is built on its own or for a signature that was made.
VerifierWanted ==
    /\ EddsaScenario
    /\ verifier_key.op = "none"
    /\ signer_key.op = "none" \/ signature.op = "sign"

VerifierFromJwk ==
    /\ VerifierWanted
    /\ \E jwk \in Jwks :
          verifier_key' = KeyCall("verifier_from_jwk", "EdDSA", jwk, NoPem, <<>>,
                                  verifier_from_jwk(jwk))
    /\ UNCHANGED <<jwsvars, signer_key, signature, verification, aesvars, pkcs8>>

VerifierFromPem ==
    /\ VerifierWanted
    /\ \E pem \in PemInputs :
          verifier_key' = KeyCall("verifier_from_pem", "EdDSA", NoJwk, pem, <<>>,
                                  verifier_from_pem(pem))
    /\ UNCHANGED <<jwsvars, signer_key, signature, verification, aesvars, pkcs8>>

VerifierFromDer ==
    /\ VerifierWanted
    /\ \E der \in DerInputs :
          verifier_key' = KeyCall("verifier_from_der", "EdDSA", NoJwk, NoPem, der,
                                  verifier_from_der(der))
    /\ UNCHANGED <<jwsvars, signer_key, signature, verification, aesvars, pkcs8>>

Verify ==
    /\ verifier_key.r.ok
    /\ signature.op = "sign"
    /\ verification.op = "none"
    /\ \E message \in Messages :
          LET ok == verify(verifier_key.r.v, message, signature.signature)
          IN verification' =
                [op |-> "verify", message |-> message,
                 signature |-> signature.signature, ok |-> ok,
                 kind |-> IF ok THEN "" ELSE "InvalidSignature"]
    /\ UNCHANGED <<jwsvars, signer_key, signature, verifier_key, aesvars, pkcs8>>

EncrypterFromJwk ==
    /\ AesScenario
    /\ encrypter_key.op = "none"
    /\ decrypter_key.op = "none"
    /\ \E alg \in AesJweAlgorithm, jwk \in Jwks :
          encrypter_key' = KeyCall("encrypter_from_jwk", alg, jwk, NoPem, <<>>,
                                   encrypter_from_jwk(alg, jwk))
    /\ UNCHANGED <<jwsvars, eddsavars, encryption, decrypter_key, decryption, pkcs8>>

Encrypt ==
    /\ encrypter_key.r.ok
    /\ encryption.op = "none"
    /\ decrypter_key.op = "none"
    /\ \E header \in JweHeaders, len \in KeyLens :
          \E random \in RandomBytes(len) :
             encryption' = [op |-> "encrypt", header |-> header, len |-> len,
                            r |-> encrypt(encrypter_key.r.v, header, len, random)]
    /\ UNCHANGED <<jwsvars, eddsavars, encrypter_key, decrypter_key, decryption, pkcs8>>

DecrypterFromJwk ==
    /\ AesScenario
    /\ decrypter_key.op = "none"
    /\ encrypter_key.op = "none" \/ encryption.op = "encrypt"
    /\ \E alg \in AesJweAlgorithm :
          \E jwk \in IF encrypter_key.op = "none" THEN Jwks
                     ELSE PairedAesJwks(encrypter_key.jwk) :
             decrypter_key' = KeyCall("decrypter_from_jwk", alg, jwk, NoPem, <<>>,
                                      decrypter_from_jwk(alg, jwk))
    /\ UNCHANGED <<jwsvars, eddsavars, encrypter_key, encryption, decryption, pkcs8>>

Decrypt ==
    /\ decrypter_key.r.ok
    /\ encryption.op = "encrypt"
    /\ decryption.op = "none"
    /\ \E len \in KeyLens \ {20},
          encrypted_key \in {encryption.r.encrypted_key, None} :
          \E r \in decrypt(decrypter_key.r.v, encryption.r.header, encrypted_key, len) :
             decryption' = [op |-> "decrypt", encrypted_key |-> encrypted_key,
                            len |-> len, r |-> r]
    /\ UNCHANGED <<jwsvars, eddsavars, encrypter_key, encryption, decrypter_key, pkcs8>>

ToPkcs8 ==
    /\ EddsaScenario
    /\ signer_key.op = "none"
    /\ verifier_key.op = "none"
    /\ pkcs8.op = "none"
    /\ \E input \in RawInputs, is_public \in BOOLEAN, crv \in {OID_ED25519, OID_ED448} :
          pkcs8' = [NoPkcs8 EXCEPT !.op = "to_pkcs8", !.input = input,
                                   !.is_public = is_public, !.crv = crv,
                                   !.der = to_pkcs8(input, is_public, crv)]
    /\ UNCHANGED <<jwsvars, eddsavars, aesvars>>

\* detect_pkcs8 on an input of a caller, as signer_from_der and
\* verifier_from_der call it.
DetectDer ==
    /\ EddsaScenario
    /\ signer_key.op = "none"
    /\ verifier_key.op = "none"
    /\ pkcs8.op = "none"
    /\ \E der \in DerInputs, is_public \in BOOLEAN :
          pkcs8' = [NoPkcs8 EXCEPT !.op = "detect_der", !.der = der,
                                   !.probed_public = is_public,
                                   !.detected = detect_pkcs8(der, is_public)]
    /\ UNCHANGED <<jwsvars, eddsavars, aesvars>>

DetectPkcs8 ==
    /\ pkcs8.op = "to_pkcs8"
    /\ \E is_public \in BOOLEAN :
          pkcs8' = [pkcs8 EXCEPT !.op = "detect_pkcs8", !.probed_public = is_public,
                                 !.detected = detect_pkcs8(pkcs8.der, is_public)]
    /\ UNCHANGED <<jwsvars, eddsavars, aesvars>>

Next ==
    \/ add_acceptable_critical
    \/ remove_acceptable_critical
    \/ SerializeCompact
    \/ SerializeCompactWithSelector
    \/ SerializeFlattenedJson
    \/ SerializeFlattenedJsonWithSelector
    \/ SerializeGeneralJson
    \/ DeserializeCompact
    \/ DeserializeCompactWithSelector
    \/ DeserializeJson
    \/ DeserializeJsonWithSelector

Spec == Init /\ [][Next]_vars

\* The behaviours of a context whose add and remove calls are recorded.
CtxNext ==
    \/ AddAcceptableCritical
    \/ RemoveAcceptableCritical
    \/ SerializeCompact
    \/ SerializeCompactWithSelector
    \/ SerializeFlattenedJson
    \/ SerializeFlattenedJsonWithSelector
    \/ SerializeGeneralJson
    \/ DeserializeCompact
    \/ DeserializeCompactWithSelector
    \/ DeserializeJson
    \/ DeserializeJsonWithSelector

CtxSpec == Init /\ [][CtxNext]_vars

\* The behaviours of the key constructors and of the keys they build.
KeyNext ==
    \/ SignerFromJwk
    \/ SignerFromPem
    \/ SignerFromDer
    \/ Sign
    \/ VerifierFromJwk
    \/ VerifierFromPem
    \/ VerifierFromDer
    \/ Verify
    \/ EncrypterFromJwk
    \/ Encrypt
    \/ DecrypterFromJwk
    \/ Decrypt
    \/ ToPkcs8
    \/ DetectPkcs8
    \/ DetectDer

KeySpec == Init /\ [][KeyNext]_vars

----------------------------------------------------------------------------
(* Properties                                                              *)

DotCount(text) == Cardinality({i \in 1..Len(text) : text[i] = DOT})

\* The text between the first and the last '.'.
MiddleSegment(text) ==
    LET dots == {i \in 1..Len(text) : text[i] = DOT}
        first == CHOOSE i \in dots : \A j \in dots : i <= j
        last == CHOOSE i \in dots : \A j \in dots : j <= i
    IN SubSeq(text, first + 1, last - 1)

\* The claims map in the first segment of a compact text.
CompactHeader(text) ==
    LET dots == {i \in 1..Len(text) : text[i] = DOT}
        first == CHOOSE i \in dots : \A j \in dots : i <= j
    IN JsonFromSlice(Base64Decode(SubSeq(text, 1, first - 1)).v)

\* The verifier is built from the signer's key: same algorithm, key and key id.
Matching(signer, verifier) ==
    /\ verifier.alg = signer.alg
    /\ verifier.key = signer.key
    /\ verifier.kid = signer.kid

\* The names in the crit array of a header that a set does not accept.
Unaccepted(header, acceptable) ==
    IF "crit" \in DOMAIN header /\ header["crit"].t = "arr"
    THEN {header["crit"].a[i] : i \in 1..Len(header["crit"].a)} \ acceptable
    ELSE {}

\* The header sets b64:false and lists b64 in crit.
RawPayloadHeader(header) ==
    /\ "b64" \in DOMAIN header
    /\ header["b64"] = Bool(FALSE)
    /\ "crit" \in DOMAIN header
    /\ Contains(header["crit"].a, "b64")

\* A compact serialization handed unchanged to deserialize_compact with the
\* verifier of the signer's key.
CompactRoundTrip ==
    /\ out.op = "compact"
    /\ out.r.ok
    /\ out.selector.mode = "fixed"
    /\ res.op = "compact"
    /\ res.text = out.r.text
    /\ res.selector.mode = "fixed"
    /\ Matching(out.selector.signer, res.selector.verifier)

\* C1 as stated: every compact round trip succeeds and returns the payload
\* and a header with alg = the algorithm's name that holds every claim of
\* the input header with the same value.
C1_Original ==
    CompactRoundTrip =>
        /\ res.r.ok
        /\ res.r.payload = out.payload
        /\ claim(res.r.header, "alg") = Some(Str(out.selector.signer.alg))
        /\ \A c \in DOMAIN out.protected[1] :
              claim(res.r.header, c) = Some(out.protected[1][c])

\* C1 amended: a compact round trip whose header lists in crit only names
\* the context accepts succeeds and returns the payload and a header with
\* alg = the signer's algorithm name, kid = the signer's key id when it has
\* one, and every other claim of the input header with the same value.
C1_CompactRoundTrip ==
    (CompactRoundTrip /\ Unaccepted(out.protected[1], res.acceptable) = {}) =>
        LET signer == out.selector.signer
            set == {"alg"} \cup (IF signer.kid # None THEN {"kid"} ELSE {})
        IN /\ res.r.ok
           /\ res.r.payload = out.payload
           /\ claim(res.r.header, "alg") = Some(Str(signer.alg))
           /\ signer.kid # None =>
                 claim(res.r.header, "kid") = Some(Str(signer.kid[1]))
           /\ \A c \in (DOMAIN out.protected[1]) \ set :
                 claim(res.r.header, c) = Some(out.protected[1][c])

\* A round trip of a non-empty payload carried verbatim (b64:false).
C1_Witness ==
    /\ CompactRoundTrip
    /\ res.r.ok
    /\ RawPayloadHeader(out.protected[1])
    /\ out.payload # <<>>
    /\ res.r.payload = out.payload

\* C4: every text serialize_compact(_with_selector) returns holds exactly
\* two '.' bytes.
C4_TwoDots ==
    (out.op = "compact" /\ out.r.ok) => DotCount(out.r.text) = 2

\* A compact text returned for a non-empty payload carried verbatim.
C4_Witness ==
    /\ out.op = "compact"
    /\ out.r.ok
    /\ RawPayloadHeader(out.protected[1])
    /\ Len(out.payload) = MaxPayloadLen
    /\ DotCount(out.r.text) = 2

\* C5: in serialize_compact with b64:false and b64 listed in crit, a payload
\* without '.' is the middle segment verbatim and the signer is handed
\* BASE64URL(protected header) + "." + payload (and the call succeeds when
\* the payload is UTF-8 and a signer is selected); a payload with '.' fails
\* with InvalidJwtFormat and nothing is signed; with b64:false but b64 not
\* listed in crit the payload is base64url-encoded.
C5_B64False ==
    out.op = "compact" =>
        LET header == out.protected[1]
            payload == out.payload
            raw == RawPayloadHeader(header)
            unlisted == /\ "b64" \in DOMAIN header
                        /\ header["b64"] = Bool(FALSE)
                        /\ ~("crit" \in DOMAIN header
                             /\ Contains(header["crit"].a, "b64"))
            protected_b64 ==
                Base64Encode(JsonToVec(WithSignerClaims(header, out.selector.signer)))
        IN /\ (raw /\ ~Contains(payload, DOT) /\ out.r.ok) =>
                 /\ DotCount(out.r.text) = 2
                 /\ MiddleSegment(out.r.text) = payload
                 /\ out.r.signed = <<protected_b64 \o <<DOT>> \o payload>>
           /\ (raw /\ ~Contains(payload, DOT) /\ IsUtf8(payload)
                 /\ out.selector.mode = "fixed") => out.r.ok
           /\ (raw /\ Contains(payload, DOT)) =>
                 /\ ~out.r.ok
                 /\ out.r.kind = "InvalidJwtFormat"
                 /\ out.r.signed = <<>>
           /\ (unlisted /\ out.r.ok) =>
                 /\ MiddleSegment(out.r.text) = Base64Encode(payload)
                 /\ out.r.signed =
                       <<protected_b64 \o <<DOT>> \o Base64Encode(payload)>>

\* A verbatim payload was signed and returned as the middle segment.
C5_Witness ==
    /\ out.op = "compact"
    /\ RawPayloadHeader(out.protected[1])
    /\ out.payload = <<97>>
    /\ out.r.ok
    /\ MiddleSegment(out.r.text) = <<97>>
    /\ Len(out.r.signed) = 1

\* C6: deserialize_compact fails and returns no payload whenever the crit
\* array of the header holds a name the context does not accept.
C6_CritRejected ==
    (/\ res.op = "compact"
     /\ DotCount(res.text) = 2
     /\ CompactHeader(res.text).ok
     /\ Unaccepted(CompactHeader(res.text).v, res.acceptable) # {}) =>
        /\ ~res.r.ok
        /\ res.r.payload = <<>>

\* A round trip with a valid signature that is rejected for its crit.
C6_Witness ==
    /\ CompactRoundTrip
    /\ Unaccepted(out.protected[1], res.acceptable) # {}
    /\ verify(res.selector.verifier, out.r.signed[1],
              sign(out.selector.signer, out.r.signed[1]))
    /\ ~res.r.ok
    /\ res.r.reason = "crit_unsupported"

\* The signature entries of an envelope, and the claims of an entry.
EnvEntries(env) == IF env.sigk = "arr" THEN env.signatures ELSE <<env.flat>>

ProtectedOf(entry) == JsonFromSlice(Base64Decode(entry.protected.s).v).v

HeaderOf(entry) == IF entry.header.k = "obj" THEN entry.header.m ELSE EmptyMap

\* The protected header and the header object of the entry share a key.
SharesKey(entry) ==
    entry.header.k = "obj"
    /\ (DOMAIN ProtectedOf(entry)) \cap (DOMAIN entry.header.m) # {}

\* The walk of the last deserialize_json reached entry i: the selector
\* declined every entry before it.
Reached(i) ==
    /\ Len(res.r.selected) >= i - 1
    /\ \A j \in 1..(i - 1) : res.r.selected[j] = "none"

\* A flattened serialization handed unchanged to deserialize_json with the
\* verifier of the signer's key.
FlattenedRoundTrip ==
    /\ out.op = "flattened"
    /\ out.r.ok
    /\ out.selector.mode = "fixed"
    /\ res.op = "json"
    /\ res.env = out.r.env
    /\ res.selector.mode = "match"
    /\ Matching(out.selector.signer, res.selector.verifier)

\* C2: a flattened-JSON round trip succeeds and returns the payload and a
\* header with alg = the algorithm's name that holds the claims of the
\* protected and the unprotected header.  Stated for headers whose crit
\* names the context accepts and that leave alg and kid to the signer.
C2_FlattenedRoundTrip ==
    LET protected == IF out.protected # None THEN out.protected[1] ELSE EmptyMap
        header == IF out.header # None THEN out.header[1] ELSE EmptyMap
    IN (/\ FlattenedRoundTrip
        /\ Unaccepted(protected, res.acceptable) = {}
        /\ (DOMAIN protected \cup DOMAIN header) \cap {"alg", "kid"} = {}) =>
           /\ res.r.ok
           /\ res.r.payload = out.payload
           /\ claim(res.r.header, "alg") = Some(Str(out.selector.signer.alg))
           /\ \A c \in DOMAIN protected : claim(res.r.header, c) = Some(protected[c])
           /\ \A c \in DOMAIN header : claim(res.r.header, c) = Some(header[c])

DistinctAlgorithms(signers) ==
    \A i, j \in 1..Len(signers) :
        signers[i].signer.alg = signers[j].signer.alg => i = j

\* C3: the envelope of serialize_general_json has one signatures entry per
\* signer, in signer order, and one payload; deserialize_json with the
\* verifier of one of the signers returns the payload and a header with
\* that verifier's alg, and with a verifier of an algorithm none of the
\* signers has it fails with the no-matching-signature error.  Stated for
\* triples whose protected and unprotected headers share no key.
C3_GeneralMultiSignature ==
    (/\ out.op = "general"
     /\ out.r.ok
     /\ DistinctAlgorithms(out.signers)
     /\ \A i \in 1..Len(out.signers) :
           (out.signers[i].protected = None \/ out.signers[i].header = None
            \/ (DOMAIN out.signers[i].protected[1])
                  \cap (DOMAIN out.signers[i].header[1]) = {})) =>
        /\ out.r.env.sigk = "arr"
        /\ out.r.env.payload.k = "str"
        /\ Len(out.r.env.signatures) = Len(out.signers)
        /\ \A i \in 1..Len(out.signers) :
              claim(ProtectedOf(out.r.env.signatures[i]), "alg")
                 = Some(Str(out.signers[i].signer.alg))
        /\ (res.op = "json" /\ res.selector.mode = "match") =>
              LET verifier == res.selector.verifier
              IN /\ (\E i \in 1..Len(out.signers) :
                        Matching(out.signers[i].signer, verifier)) =>
                       /\ res.r.ok
                       /\ res.r.payload = out.payload
                       /\ claim(res.r.header, "alg") = Some(Str(verifier.alg))
                 /\ (\A i \in 1..Len(out.signers) :
                        out.signers[i].signer.alg # verifier.alg) =>
                       /\ ~res.r.ok
                       /\ res.r.reason = "no_match"

\* C7: deserialize_json fails whenever the protected header of the entry
\* the selector chose lists in crit a name the context does not accept, and
\* it returns the payload field verbatim exactly when that header sets
\* b64:false and lists b64 in crit.
C7_JsonCrit ==
    (/\ res.op = "json"
     /\ res.r.selected # <<>>
     /\ res.r.selected[Len(res.r.selected)] = "some") =>
        LET protected == ProtectedOf(EnvEntries(res.env)[Len(res.r.selected)])
        IN /\ Unaccepted(protected, res.acceptable) # {} => ~res.r.ok
           /\ res.r.ok =>
                 res.r.payload = IF RawPayloadHeader(protected)
                                 THEN res.env.payload.s
                                 ELSE Base64Decode(res.env.payload.s).v

\* C8: with a key id bound to the verifier, deserialize_compact and
\* deserialize_json fail with InvalidJwtFormat when the header kid is
\* absent or differs; with no key id bound the header kid is not checked.
C8_KidChecked ==
    LET verifier == res.selector.verifier
        kid_of(header) == IF "kid" \in DOMAIN header THEN {header["kid"]} ELSE {}
        kids(entry) == kid_of(ProtectedOf(entry)) \cup kid_of(HeaderOf(entry))
        entries == EnvEntries(res.env)
        failed == ~res.r.ok /\ res.r.kind = "InvalidJwtFormat"
    IN /\ (/\ res.op = "compact"
           /\ res.selector.mode = "fixed"
           /\ verifier.kid # None
           /\ DotCount(res.text) = 2
           /\ CompactHeader(res.text).ok
           /\ Str(verifier.kid[1]) \notin kid_of(CompactHeader(res.text).v))
             => failed
       /\ (/\ res.op = "json"
           /\ res.selector.mode = "match"
           /\ verifier.kid # None
           /\ \A i \in 1..Len(entries) : Str(verifier.kid[1]) \notin kids(entries[i]))
             => failed
       /\ (/\ res.op = "json"
           /\ res.selector.mode = "fixed"
           /\ verifier.kid # None
           /\ Len(entries) > 0
           /\ Str(verifier.kid[1]) \notin kids(entries[1]))
             => failed
       /\ (res.op # "none" /\ res.selector.mode \in {"fixed", "match"}
             /\ verifier.kid = None) =>
             /\ res.r.reason \notin {"kid_required", "kid_mismatch"}
             /\ \A i \in 1..Len(res.r.seen) :
                   header_algorithm(res.r.seen[i]) = Some(verifier.alg)
                      => res.r.selected[i] = "some"

\* A compact serialization with a valid signature and header kid "k2",
\* refused by the verifier of the same key bound to key id "k1".
C8_Witness ==
    /\ out.op = "compact"
    /\ res.op = "compact"
    /\ res.text = out.r.text
    /\ res.selector.mode = "fixed"
    /\ res.selector.verifier.kid = Some("k1")
    /\ claim(CompactHeader(res.text).v, "kid") = Some(Str("k2"))
    /\ verify(res.selector.verifier, out.r.signed[1],
              sign(out.selector.signer, out.r.signed[1]))
    /\ ~res.r.ok
    /\ res.r.reason = "kid_mismatch"

\* C9: deserialize_compact fails with InvalidJwtFormat on every input whose
\* number of '.' is not two, before the selector or the verifier is called.
C9_ThreeParts ==
    (res.op = "compact" /\ DotCount(res.text) # 2) =>
        /\ ~res.r.ok
        /\ res.r.kind = "InvalidJwtFormat"
        /\ res.r.seen = <<>>
        /\ res.r.selected = <<>>
        /\ res.r.verified = <<>>

\* An input of three '.' that is a valid serialization with '.' appended.
C9_Witness ==
    /\ res.op = "compact"
    /\ res.text = out.r.text \o <<DOT>>
    /\ DotCount(res.text) = 3
    /\ ~res.r.ok
    /\ res.r.reason = "three_parts"

\* C10: serialize_flattened_json fails with InvalidJwtFormat, before a
\* signer is selected or anything is signed, when the protected and the
\* unprotected header share a claim name; deserialize_json fails with
\* InvalidJwtFormat at a signature entry whose protected header and header
\* object share a key.
C10_DuplicateKey ==
    /\ (/\ out.op = "flattened"
        /\ out.protected # None
        /\ out.header # None
        /\ (DOMAIN out.protected[1]) \cap (DOMAIN out.header[1]) # {}) =>
          /\ ~out.r.ok
          /\ out.r.kind = "InvalidJwtFormat"
          /\ out.r.selcalls = 0
          /\ out.r.signed = <<>>
    /\ res.op = "json" =>
          \A i \in 1..Len(EnvEntries(res.env)) :
              (SharesKey(EnvEntries(res.env)[i]) /\ Reached(i)) =>
                  /\ ~res.r.ok
                  /\ res.r.kind = "InvalidJwtFormat"
                  /\ res.r.verified = <<>>

\* serialize_flattened_json refused headers that both hold kid, although a
\* signer was at hand.
C10_Witness ==
    /\ out.op = "flattened"
    /\ out.selector.mode = "fixed"
    /\ out.protected # None
    /\ out.header # None
    /\ "kid" \in (DOMAIN out.protected[1]) \cap (DOMAIN out.header[1])
    /\ ~out.r.ok
    /\ out.r.reason = "duplicate_key"

\* The protected headers a successful serialization emitted, each with the
\* signer it was emitted for.
Emitted ==
    IF out.op = "compact"
    THEN {<<CompactHeader(out.r.text).v, out.selector.signer>>}
    ELSE IF out.op = "flattened"
    THEN {<<ProtectedOf(out.r.env.flat), out.selector.signer>>}
    ELSE {<<ProtectedOf(out.r.env.signatures[i]), out.signers[i].signer>> :
             i \in 1..Len(out.signers)}

\* C11: in the compact, flattened and general serialization the emitted
\* protected header has alg = the signer's algorithm name and, when the
\* signer has a key id, kid = that key id, whatever alg or kid the caller
\* put in the input header.
C11_SignerClaims ==
    (out.op \in {"compact", "flattened", "general"} /\ out.r.ok) =>
        \A e \in Emitted :
            /\ claim(e[1], "alg") = Some(Str(e[2].alg))
            /\ e[2].kid # None => claim(e[1], "kid") = Some(Str(e[2].kid[1]))

\* The merged header of a signature entry: its header object and the claims
\* of its protected header.
MergedOf(entry) ==
    LET header == HeaderOf(entry)
        protected == ProtectedOf(entry)
    IN [c \in (DOMAIN header) \cup (DOMAIN protected) |->
           IF c \in DOMAIN protected THEN protected[c] ELSE header[c]]

\* C12: on a general-JSON envelope deserialize_json_with_selector hands the
\* entries of signatures to the selector in index order, every entry before
\* the last one handed over was declined, nothing after the first entry the
\* selector answers with a verifier is handed over or verified, that entry
\* alone decides the result, and the header returned is its merged header.
C12_FirstMatch ==
    (res.op = "json" /\ res.env.sigk = "arr") =>
        LET entries == res.env.signatures
            n == Len(res.r.seen)
            message(i) == entries[i].protected.s \o <<DOT>> \o res.env.payload.s
        IN /\ Len(res.r.selected) = n
           /\ n <= Len(entries)
           /\ \A j \in 1..n : res.r.seen[j] = MergedOf(entries[j])
           /\ \A j \in 1..(n - 1) : res.r.selected[j] = "none"
           /\ (n > 0 /\ res.r.selected[n] = "some") =>
                 /\ res.r.ok => res.r.header = MergedOf(entries[n])
                 /\ res.r.ok => res.r.verified = <<message(n)>>
                 /\ \A k \in 1..Len(res.r.verified) : res.r.verified[k] = message(n)
                 /\ res.r = deserialize_json_with_selector(
                               res.acceptable,
                               [res.env EXCEPT !.signatures = SubSeq(entries, 1, n)],
                               res.selector)
           /\ (n > 0 /\ res.r.selected[n] # "some") => res.r.verified = <<>>

\* The first of two different entries was verified and returned; the second
\* was never handed to the selector.
C12_Witness ==
    /\ res.op = "json"
    /\ res.env.sigk = "arr"
    /\ Len(res.env.signatures) = 2
    /\ MergedOf(res.env.signatures[1]) # MergedOf(res.env.signatures[2])
    /\ res.r.ok
    /\ res.r.selected = <<"some">>
    /\ res.r.header = MergedOf(res.env.signatures[1])

\* The number of entries the selector declined in the last deserialize_json.
Skipped == Cardinality({j \in 1..Len(res.r.selected) : res.r.selected[j] = "none"})

\* The result of a walk but for its record of the selector calls.
Outcome(r) == <<r.ok, r.payload, r.header, r.kind, r.reason, r.verified>>

\* C13: in deserialize_json an entry the selector declines is skipped
\* without error (the result is that of the envelope without the declined
\* entries), the call fails with the no-matching-signature InvalidJwtFormat
\* error exactly when every entry was declined, an empty signatures array
\* included, and the closure of deserialize_json declines every entry of
\* another algorithm or key id; in deserialize_compact, serialize_compact and
\* serialize_flattened_json a selector answering None fails the call with
\* InvalidJwtFormat.
C13_SelectorNone ==
    /\ res.op = "json" =>
          LET entries == EnvEntries(res.env)
              rest == SubSeq(entries, Skipped + 1, Len(entries))
          IN /\ Outcome(res.r) =
                   Outcome(JsonWalk(res.acceptable, res.env.payload.s, rest,
                                    res.selector, 1, <<>>, <<>>))
             /\ (~res.r.ok /\ res.r.reason = "no_match")
                   <=> (/\ Len(res.r.selected) = Len(entries)
                        /\ \A j \in 1..Len(entries) : res.r.selected[j] = "none")
             /\ res.r.reason = "no_match" => res.r.kind = "InvalidJwtFormat"
             /\ (/\ res.selector.mode = "match"
                 /\ \A j \in 1..Len(entries) :
                       /\ entries[j].header.k = "obj"
                       /\ ~SharesKey(entries[j])
                       /\ \/ header_algorithm(MergedOf(entries[j]))
                                # Some(res.selector.verifier.alg)
                          \/ /\ res.selector.verifier.kid # None
                             /\ header_key_id(MergedOf(entries[j]))
                                   # res.selector.verifier.kid)
                   => (~res.r.ok /\ res.r.reason = "no_match")
    /\ (/\ res.op = "compact"
        /\ res.selector.mode = "none"
        /\ DotCount(res.text) = 2
        /\ CompactHeader(res.text).ok) =>
          /\ ~res.r.ok
          /\ res.r.kind = "InvalidJwtFormat"
          /\ res.r.verified = <<>>
    /\ (/\ out.op \in {"compact", "flattened"}
        /\ out.selector.mode = "none"
        /\ out.r.selcalls = 1) =>
          /\ ~out.r.ok
          /\ out.r.kind = "InvalidJwtFormat"
          /\ out.r.signed = <<>>

\* deserialize_json skipped the first entry of two and returned the second.
C13_Witness ==
    /\ res.op = "json"
    /\ res.env.sigk = "arr"
    /\ res.selector.mode = "match"
    /\ res.r.selected = <<"none", "some">>
    /\ res.r.ok
    /\ res.r.header = MergedOf(res.env.signatures[2])

----------------------------------------------------------------------------
(* Properties of the keys                                                  *)

\* The octets of a JWK parameter that is a string of base64url text.
ParamBytes(jwk, name) ==
    IF jwk[name] # None /\ jwk[name][1].k = "str"
    THEN Base64Decode(jwk[name][1].s)
    ELSE [ok |-> FALSE, v |-> <<>>]

\* A key was wrapped, and unwrapped for the same length by the decrypter
\* built from the same JWK for the same variant.
AesRoundTrip ==
    /\ encrypter_key.r.ok
    /\ encryption.op = "encrypt"
    /\ encryption.r.ok
    /\ decrypter_key.r.ok
    /\ decrypter_key.jwk = encrypter_key.jwk
    /\ decrypter_key.alg = encrypter_key.alg
    /\ decryption.op = "decrypt"
    /\ decryption.encrypted_key = encryption.r.encrypted_key
    /\ decryption.len = encryption.len

\* C14: for each AES-KW variant, key and CEK length n in {16, 24, 32},
\* encrypt returns a CEK of n octets with its wrapped form and leaves the
\* variant's name in the header's alg, and decrypt of the wrapped form for
\* the length n on the decrypter built from the same key returns that CEK.
C14_AesKwRoundTrip ==
    /\ (encryption.op = "encrypt" /\ encryption.len \in {16, 24, 32}) =>
          /\ encryption.r.ok
          /\ Len(encryption.r.cek) = encryption.len
          /\ encryption.r.encrypted_key # None
          /\ claim(encryption.r.header, "alg") = Some(Str(encrypter_key.alg))
    /\ AesRoundTrip =>
          /\ decryption.r.ok
          /\ decryption.r.cek = encryption.r.cek

\* A 32-octet key wrapped under A192KW, with a header that named another
\* alg, came back from decrypt.
C14_Witness ==
    /\ AesRoundTrip
    /\ encrypter_key.alg = "A192KW"
    /\ encryption.len = 32
    /\ encryption.header = MapOf({<<"alg", Str("dir")>>})
    /\ encryption.r.cek = [i \in 1..32 |-> i]
    /\ Len(encryption.r.encrypted_key[1]) = 40
    /\ decryption.r.cek = encryption.r.cek

\* The key size of a variant in octets.
VariantSize(alg) == CASE alg = "A128KW" -> 16 [] alg = "A192KW" -> 24 [] alg = "A256KW" -> 32

\* C15: encrypter_from_jwk and decrypter_from_jwk fail with InvalidKeyFormat
\* and return no key whenever the decoded k is not of the variant's size.
C15_KeySize ==
    \A call \in {encrypter_key, decrypter_key} :
        (/\ call.op # "none"
         /\ ParamBytes(call.jwk, "k").ok
         /\ Len(ParamBytes(call.jwk, "k").v) # VariantSize(call.alg)) =>
            /\ ~call.r.ok
            /\ call.r.kind = "InvalidKeyFormat"
            /\ call.r.v = NoKey

\* A256KW refused a 16-octet key that A128KW accepts, for its size.
C15_Witness ==
    /\ encrypter_key.op = "encrypter_from_jwk"
    /\ encrypter_key.alg = "A256KW"
    /\ Len(ParamBytes(encrypter_key.jwk, "k").v) = 16
    /\ encrypter_from_jwk("A128KW", encrypter_key.jwk).ok
    /\ ~encrypter_key.r.ok
    /\ encrypter_key.r.reason = "key_size"

\* The last calls of the four JWK constructors.
JwkCalls ==
    {call \in {signer_key, verifier_key, encrypter_key, decrypter_key} :
        call.op \in {"signer_from_jwk", "verifier_from_jwk",
                     "encrypter_from_jwk", "decrypter_from_jwk"}}

\* What the constructor of a call returns for another JWK.
Construct(call, jwk) ==
    CASE call.op = "signer_from_jwk" -> signer_from_jwk(jwk)
      [] call.op = "verifier_from_jwk" -> verifier_from_jwk(jwk)
      [] call.op = "encrypter_from_jwk" -> encrypter_from_jwk(call.alg, jwk)
      [] call.op = "decrypter_from_jwk" -> decrypter_from_jwk(call.alg, jwk)

\* C16: signer_from_jwk, verifier_from_jwk, encrypter_from_jwk and
\* decrypter_from_jwk fail with InvalidKeyFormat on a JWK whose alg is not
\* the algorithm's name, and take a JWK without alg as they take the same
\* JWK with the algorithm's name as alg.
C16_JwkAlg ==
    \A call \in JwkCalls :
        /\ (call.jwk.alg # None /\ call.jwk.alg # Some(call.alg)) =>
              /\ ~call.r.ok
              /\ call.r.kind = "InvalidKeyFormat"
        /\ call.jwk.alg = None =>
              /\ call.r = Construct(call, [call.jwk EXCEPT !.alg = Some(call.alg)])
              /\ call.r.reason # "alg"

\* signer_from_jwk refused for its alg a key it builds a signer from once
\* the alg is taken away.
C16_Witness ==
    /\ signer_key.op = "signer_from_jwk"
    /\ signer_key.jwk.alg = Some("ES256")
    /\ ~signer_key.r.ok
    /\ signer_key.r.reason = "alg"
    /\ signer_from_jwk([signer_key.jwk EXCEPT !.alg = None]).ok

\* C17: signer_from_jwk fails with InvalidKeyFormat on a JWK without d,
\* verifier_from_jwk on a JWK without x, and both on a JWK whose crv is
\* absent or neither Ed25519 nor Ed448.
C17_JwkParameters ==
    LET failed(call) == ~call.r.ok /\ call.r.kind = "InvalidKeyFormat"
                        /\ call.r.v = NoKey
        curves == {Some(Str("Ed25519")), Some(Str("Ed448"))}
    IN /\ (signer_key.op = "signer_from_jwk" /\ signer_key.jwk.d = None)
             => failed(signer_key)
       /\ (verifier_key.op = "verifier_from_jwk" /\ verifier_key.jwk.x = None)
             => failed(verifier_key)
       /\ (signer_key.op = "signer_from_jwk" /\ signer_key.jwk.crv \notin curves)
             => failed(signer_key)
       /\ (verifier_key.op = "verifier_from_jwk" /\ verifier_key.jwk.crv \notin curves)
             => failed(verifier_key)

\* signer_from_jwk refused a key without crv whose d is an Ed25519 key.
C17_Witness ==
    /\ signer_key.op = "signer_from_jwk"
    /\ signer_key.jwk.kty = "OKP"
    /\ signer_key.jwk.alg = None
    /\ signer_key.jwk.crv = None
    /\ ParamBytes(signer_key.jwk, "d").v = RawKey(1, 32)
    /\ ~signer_key.r.ok
    /\ signer_key.r.reason = "crv"

Curves == {OID_ED25519, OID_ED448}

OtherCurve(oid) == IF oid = OID_ED25519 THEN OID_ED448 ELSE OID_ED25519

\* The PEM label and the JWK crv that name a curve.
CurveLabel(oid, kind) ==
    IF oid = OID_ED25519 THEN "ED25519 " \o kind ELSE "ED448 " \o kind

CurveName(oid) == IF oid = OID_ED25519 THEN "Ed25519" ELSE "Ed448"

\* The last calls of the two PEM constructors, each with the key kind of its
\* labels and the parse of its data as a key of that kind.
PemCalls ==
    {c \in {[call |-> signer_key, kind |-> "PRIVATE KEY",
             pkey |-> private_key_from_der(signer_key.pem.data)],
            [call |-> verifier_key, kind |-> "PUBLIC KEY",
             pkey |-> public_key_from_der(verifier_key.pem.data)]} :
        /\ c.call.op \in {"signer_from_pem", "verifier_from_pem"}
        /\ c.call.pem.framed}

\* C18: signer_from_pem and verifier_from_pem fail with InvalidKeyFormat on
\* a label that names one curve over a key of the other curve, and on every
\* label but the generic one and the two curve labels of their key kind;
\* under the generic label they build the key of either curve.
C18_PemLabels ==
    \A c \in PemCalls :
        LET failed == ~c.call.r.ok /\ c.call.r.kind = "InvalidKeyFormat"
            label == c.call.pem.label
        IN /\ \A oid \in Curves :
                 (label = CurveLabel(oid, c.kind) /\ c.pkey.ok
                    /\ c.pkey.oid = OtherCurve(oid)) => failed
           /\ label \notin {c.kind, CurveLabel(OID_ED25519, c.kind),
                            CurveLabel(OID_ED448, c.kind)} => failed
           /\ (label = c.kind /\ c.pkey.ok) =>
                 /\ c.call.r.ok
                 /\ c.call.r.v.key[1] = c.pkey.oid

\* signer_from_pem refused an Ed448 key under the Ed25519 label that it
\* takes under the generic label.
C18_Witness ==
    /\ signer_key.op = "signer_from_pem"
    /\ signer_key.pem = Pem(TRUE, "ED25519 PRIVATE KEY", PrivateDer(1, OID_ED448))
    /\ ~signer_key.r.ok
    /\ signer_key.r.reason = "curve_mismatch"
    /\ signer_from_pem(Pem(TRUE, "PRIVATE KEY", PrivateDer(1, OID_ED448))).ok

\* The checks of a JWK other than its key: kty, use, key_ops, alg and crv
\* are those of an EdDSA key of the curve, usable for the operation.
EddsaJwkOf(jwk, oid, op) ==
    /\ jwk.kty = "OKP"
    /\ jwk.use \in {None, Some("sig")}
    /\ jwk.key_ops = None \/ Contains(jwk.key_ops[1], op)
    /\ jwk.alg \in {None, Some("EdDSA")}
    /\ jwk.crv = Some(Str(CurveName(oid)))

\* The call built a signer from the private key of a seed and curve.
SignerInput(call, seed, oid) ==
    \/ /\ call.op = "signer_from_jwk"
       /\ EddsaJwkOf(call.jwk, oid, "sign")
       /\ call.jwk.d = B64Param(RawKey(seed, CurveWidth(oid)))
    \/ /\ call.op = "signer_from_pem"
       /\ call.pem.framed
       /\ call.pem.label \in {"PRIVATE KEY", CurveLabel(oid, "PRIVATE KEY")}
       /\ call.pem.data = PrivateDer(seed, oid)
    \/ /\ call.op = "signer_from_der"
       /\ call.der = PrivateDer(seed, oid)

\* The call built a verifier from the public key of a seed and curve.
VerifierInput(call, seed, oid) ==
    \/ /\ call.op = "verifier_from_jwk"
       /\ EddsaJwkOf(call.jwk, oid, "verify")
       /\ call.jwk.x = B64Param(PublicOf(RawKey(seed, CurveWidth(oid))))
    \/ /\ call.op = "verifier_from_pem"
       /\ call.pem.framed
       /\ call.pem.label \in {"PUBLIC KEY", CurveLabel(oid, "PUBLIC KEY")}
       /\ call.pem.data = PublicDer(seed, oid)
    \/ /\ call.op = "verifier_from_der"
       /\ call.der = PublicDer(seed, oid)

\* A signer constructor and the verifier constructor of the same format.
Dual(signer_op, verifier_op) ==
    <<signer_op, verifier_op>> \in
        {<<"signer_from_jwk", "verifier_from_jwk">>,
         <<"signer_from_pem", "verifier_from_pem">>,
         <<"signer_from_der", "verifier_from_der">>}

\* C19: a signer built from a private key of either curve by
\* signer_from_jwk, signer_from_pem or signer_from_der signs a message so
\* that the verifier the dual constructor builds from the corresponding
\* public key accepts the message with the signature; verifier_from_jwk takes
\* a JWK that carries d beside x as it takes the JWK without d.
C19_SignVerify ==
    /\ \A seed \in {1, 2}, oid \in Curves :
          /\ SignerInput(signer_key, seed, oid) => signer_key.r.ok
          /\ VerifierInput(verifier_key, seed, oid) => verifier_key.r.ok
          /\ ( /\ SignerInput(signer_key, seed, oid)
               /\ VerifierInput(verifier_key, seed, oid)
               /\ Dual(signer_key.op, verifier_key.op)
               /\ verification.op = "verify"
               /\ verification.message = signature.message )
             => /\ verification.ok
                /\ verification.signature = signature.signature
    /\ (verifier_key.op = "verifier_from_jwk" /\ verifier_key.jwk.d # None) =>
          verifier_key.r = verifier_from_jwk([verifier_key.jwk EXCEPT !.d = None])

\* An Ed448 signature made with a key from a JWK was accepted by the
\* verifier built from the same JWK, d included.
C19_Witness ==
    /\ SignerInput(signer_key, 1, OID_ED448)
    /\ signer_key.op = "signer_from_jwk"
    /\ verifier_key.op = "verifier_from_jwk"
    /\ verifier_key.jwk = signer_key.jwk
    /\ verifier_key.jwk.d # None
    /\ signature.op = "sign"
    /\ signature.message = <<97>>
    /\ verification.op = "verify"
    /\ verification.message = <<97>>
    /\ verification.ok

\* C20: detect_pkcs8 asked for the key kind to_pkcs8 was asked for finds in
\* the output of to_pkcs8 the curve to_pkcs8 was given, for every raw key,
\* both key kinds and both curves.
C20_Pkcs8RoundTrip ==
    (pkcs8.op = "detect_pkcs8" /\ pkcs8.probed_public = pkcs8.is_public) =>
        pkcs8.detected = DetectSome(pkcs8.crv)

\* The Ed448 curve was found in the private key made of 128 octets, whose
\* lengths take the long form.
C20_Witness ==
    /\ pkcs8.op = "detect_pkcs8"
    /\ ~pkcs8.is_public
    /\ ~pkcs8.probed_public
    /\ pkcs8.crv = OID_ED448
    /\ Len(pkcs8.input) = 128
    /\ pkcs8.der[2] = 129
    /\ pkcs8.detected = DetectSome(OID_ED448)

\* The use and the key_ops the constructor of a call asks for.
RoleUse(call) ==
    IF call.op \in {"signer_from_jwk", "verifier_from_jwk"} THEN "sig" ELSE "enc"

RoleOps(call) ==
    CASE call.op = "signer_from_jwk" -> <<"sign">>
      [] call.op = "verifier_from_jwk" -> <<"verify">>
      [] call.op = "encrypter_from_jwk" -> <<"encrypt", "wrapKey">>
      [] call.op = "decrypter_from_jwk" -> <<"decrypt", "unwrapKey">>

\* C21: a JWK constructor fails with InvalidKeyFormat on a JWK whose use is
\* not sig (EdDSA) or enc (AES), and on one whose key_ops lack sign
\* (signer), verify (verifier), encrypt or wrapKey (encrypter), decrypt or
\* unwrapKey (decrypter); a JWK with neither use nor key_ops is taken as the
\* same JWK with the use and exactly the key_ops of the role.
C21_JwkRole ==
    \A call \in JwkCalls :
        LET jwk == call.jwk
            failed == ~call.r.ok /\ call.r.kind = "InvalidKeyFormat"
                      /\ call.r.v = NoKey
            ops == RoleOps(call)
        IN /\ (jwk.use # None /\ jwk.use # Some(RoleUse(call))) => failed
           /\ (jwk.key_ops # None
                 /\ \E i \in 1..Len(ops) : ~Contains(jwk.key_ops[1], ops[i]))
              => failed
           /\ (jwk.use = None /\ jwk.key_ops = None) =>
                 /\ call.r.reason \notin {"use", "key_ops"}
                 /\ call.r = Construct(call, [jwk EXCEPT !.use = Some(RoleUse(call)),
                                                         !.key_ops = Some(ops)])

\* encrypter_from_jwk refused a key whose key_ops hold encrypt without
\* wrapKey, a key it takes once the key_ops are gone.
C21_Witness ==
    /\ encrypter_key.op = "encrypter_from_jwk"
    /\ encrypter_key.jwk.use = None
    /\ encrypter_key.jwk.key_ops = Some(<<"encrypt">>)
    /\ ~encrypter_key.r.ok
    /\ encrypter_key.r.reason = "key_ops"
    /\ encrypter_from_jwk(encrypter_key.alg,
                          [encrypter_key.jwk EXCEPT !.key_ops = None]).ok

\* The input is SEQUENCE { [INTEGER 0,] SEQUENCE { OID .. }, key }: the
\* version only in a private key, the key an OCTET STRING in a private and a
\* BIT STRING in a public key.
Pkcs8Shape(input, is_public) ==
    LET outer == DerNext(input, 1)
        version == DerNext(input, outer.start)
        alg == DerNext(input, IF is_public THEN outer.start
                              ELSE version.start + version.len)
        oid == DerNext(input, alg.start)
        key == DerNext(input, alg.start + alg.len)
    IN /\ outer.ok /\ outer.tag = DerSequence
       /\ is_public \/ ( /\ version.ok /\ version.tag = DerInteger
                         /\ DerContents(input, version) = [ok |-> TRUE, v |-> <<0>>] )
       /\ alg.ok /\ alg.tag = DerSequence
       /\ oid.ok /\ oid.tag = DerObjectIdentifier /\ DerContents(input, oid).ok
       /\ key.ok /\ DerContents(input, key).ok
       /\ key.tag = IF is_public THEN DerBitString ELSE DerOctetString

\* The input is a private key whose version is an integer other than 0.
Pkcs8OtherVersion(input, is_public) ==
    LET outer == DerNext(input, 1)
        version == DerNext(input, outer.start)
        val == DerContents(input, version)
    IN /\ ~is_public
       /\ outer.ok /\ outer.tag = DerSequence
       /\ version.ok /\ version.tag = DerInteger
       /\ val.ok /\ Len(val.v) = 1 /\ val.v # <<0>>

\* C22: detect_pkcs8 returns Some(oid) only on an input of the whole shape
\* of a private or public key, fails on a private key whose version is not
\* 0, and returns None on every other input that has not the shape.
C22_DetectOutcomes ==
    pkcs8.op \in {"detect_pkcs8", "detect_der"} =>
        /\ pkcs8.detected.k \in {"some", "none", "err"}
        /\ pkcs8.detected.k = "some" => Pkcs8Shape(pkcs8.der, pkcs8.probed_public)
        /\ Pkcs8OtherVersion(pkcs8.der, pkcs8.probed_public) =>
              pkcs8.detected = DetectErr
        /\ ( /\ ~Pkcs8Shape(pkcs8.der, pkcs8.probed_public)
             /\ ~Pkcs8OtherVersion(pkcs8.der, pkcs8.probed_public) )
           => pkcs8.detected = DetectNone

\* The first signature entry of the last deserialize_json has no header
\* field, a protected header with alg and without crit, and the signature
\* the selector's verifier makes of the received protected and payload.
HeaderAbsent ==
    LET entries == EnvEntries(res.env)
        e == entries[1]
        verifier == res.selector.verifier
        protected == ProtectedOf(e)
    IN /\ res.op = "json"
       /\ res.selector.mode \in {"fixed", "match"}
       /\ res.env.payload.k = "str"
       /\ Base64Decode(res.env.payload.s).ok
       /\ res.env.sigk \in {"none", "arr"}
       /\ Len(entries) > 0
       /\ \A i \in 1..Len(entries) : entries[i].k = "obj"
       /\ e.header.k = "none"
       /\ e.protected.k = "str"
       /\ Base64Decode(e.protected.s).ok
       /\ JsonFromSlice(Base64Decode(e.protected.s).v).ok
       /\ claim(protected, "alg") = Some(Str(verifier.alg))
       /\ verifier.kid # None => claim(protected, "kid") = Some(Str(verifier.kid[1]))
       /\ DOMAIN protected \cap {"crit", "critical", "b64"} = {}
       /\ e.signature.k = "str"
       /\ Base64Decode(e.signature.s).ok
       /\ verify(verifier, e.protected.s \o <<DOT>> \o res.env.payload.s,
                 Base64Decode(e.signature.s).v)

\* C23: deserialize_json takes a flattened envelope, and a first entry of a
\* general envelope, that has a protected field and a valid signature but no
\* header field, and returns the decoded protected header as the header.
C23_HeaderOptional ==
    HeaderAbsent =>
        /\ res.r.ok
        /\ res.r.header = ProtectedOf(EnvEntries(res.env)[1])
        /\ res.r.payload = Base64Decode(res.env.payload.s).v

\* The bytes a signer is to be handed for an entry: the protected field,
\* '.', and the payload, base64url unless the protected header lists b64 in
\* crit and sets b64:false.
SigningInput(entry, payload) ==
    entry.protected.s \o <<DOT>>
    \o (IF RawPayloadHeader(ProtectedOf(entry)) THEN payload
        ELSE Base64Encode(payload))

\* The signer of the first entry of the last serialization.
FirstSigner ==
    IF out.op = "general" THEN out.signers[1].signer ELSE out.selector.signer

\* A flattened or general serialization handed unchanged to deserialize_json
\* with the verifier of the first signer's key, the first entry with crit
\* names the context accepts and no claim in both of its headers.
JsonRoundTrip ==
    /\ out.op \in {"flattened", "general"}
    /\ out.r.ok
    /\ out.op = "flattened" => out.selector.mode = "fixed"
    /\ out.op = "general" => Len(out.signers) > 0
    /\ res.op = "json"
    /\ res.env = out.r.env
    /\ res.selector.mode = "match"
    /\ Matching(FirstSigner, res.selector.verifier)
    /\ Unaccepted(ProtectedOf(EnvEntries(out.r.env)[1]), res.acceptable) = {}
    /\ ~SharesKey(EnvEntries(out.r.env)[1])

\* C24: serialize_flattened_json and serialize_general_json hand each signer
\* the protected field of its entry, '.', and the payload, base64url unless
\* that entry's protected header lists b64 in crit and sets b64:false;
\* deserialize_json of the result verifies the same bytes and returns the
\* payload that was serialized.
C24_JsonSigningInput ==
    /\ (out.op \in {"flattened", "general"} /\ out.r.ok) =>
          LET entries == EnvEntries(out.r.env)
          IN /\ Len(out.r.signed) = Len(entries)
             /\ \A i \in 1..Len(entries) :
                   out.r.signed[i] = SigningInput(entries[i], out.payload)
    /\ JsonRoundTrip =>
          /\ res.r.ok
          /\ res.r.payload = out.payload
          /\ res.r.verified =
                <<SigningInput(EnvEntries(res.env)[1], out.payload)>>

\* C25: a new context accepts no name; after any add_acceptable_critical
\* and remove_acceptable_critical calls a name is accepted exactly when the
\* most recent call that named it was an add, whatever calls named other
\* names and whatever was serialized or deserialized, with or without
\* success, in between.
C25_AcceptableCriticals ==
    /\ acceptable_criticals \subseteq Names
    /\ \A name \in Names :
          is_acceptable_critical(acceptable_criticals, name)
             <=> calls[name] = "add"

C25_Witness ==
    /\ calls["b64"] = "add"
    /\ calls["exp"] = "remove"
    /\ out.op # "none"
    /\ out.r.ok
    /\ res.op # "none"
    /\ ~res.r.ok
    /\ res.acceptable = {"exp"}

\* The entry of the received envelope the last deserialize call stopped at,
\* the signing input as received (protected segment, '.', payload segment)
\* and the signature octets received with it.
ReceivedEntry == EnvEntries(res.env)[Len(res.r.selected)]

ReceivedMessage ==
    IF res.op = "compact"
    THEN SubSeq(res.text, 1, indexies(res.text)[2] - 1)
    ELSE ReceivedEntry.protected.s \o <<DOT>> \o res.env.payload.s

ReceivedSignature ==
    IF res.op = "compact"
    THEN Base64Decode(SubSeq(res.text, indexies(res.text)[2] + 1, Len(res.text))).v
    ELSE Base64Decode(ReceivedEntry.signature.s).v

====
